---- MODULE Spec2Model ----
(***************************************************************************)
(* Content pipeline of the Kolorowanki worker: Quota Governor              *)
(* (generate-daily), Prompt Synthesizer (prompt-generate), Asset Generator *)
(* (ai-generate), Localization Stage (translate-page), Link Indexer        *)
(* (link-boost), Content Quality Remediator (thin-fix) and the             *)
(* administrative actions on GenerationPrompt rows.                        *)
(*                                                                         *)
(* The handlers of the queues are split into steps at their awaits, so     *)
(* that deliveries of different messages interleave where the code         *)
(* suspends; the Link Indexer, whose worker runs one delivery at a time,   *)
(* takes one step per locale.                                              *)
(***************************************************************************)
EXTENDS Integers, Sequences, FiniteSets, TLC

\* -------------------------------------------------------------------------
\* Bounds of the model
\* -------------------------------------------------------------------------
MaxPrompts == 3
NumTexts == 2
MaxItems == 1
MaxPages == 14
MaxMsgs == 4
MaxAdmin == 1
NumCats == 2
SynthWorkers == 2
NumLocales == 2
LocWorkers == 1
\* the largest AI_MAX_ATTEMPTS the model is configured with
MaxConfigured == 4

\* -------------------------------------------------------------------------
\* Program constants
\* -------------------------------------------------------------------------
\* ai-generate.ts:13  parseInt(process.env.AI_MAX_ATTEMPTS ?? "2")
MAX_ATTEMPTS == 2
\* ai-generate.ts:16  parseInt(process.env.AI_CONCURRENCY ?? "2")
CONCURRENCY == 2
\* job option attempts: 3 of every queue.add for ai-generate / prompt-generate
QUEUE_ATTEMPTS == 3
\* part_013:497  limit = 8
RELATED_LIMIT == 8
\* part_013:564  take: 8
DYNAMIC_TAG_TAKE == 8
MAX_BATCH_COUNT == 50

\* thin-fix.ts:33
DESCRIPTION_MIN_LENGTH == 120
\* locales.ts:18  DEFAULT_LOCALE = "en", the first of SUPPORTED_LOCALES
DEFAULT_LOCALE == 1
\* link-boost: TAG_LIMIT, CAT_LIMIT and the worker's concurrency
TAG_LIMIT == 12
CAT_LIMIT == 12
LINK_CONCURRENCY == 1
\* thin-fix.ts:35  parseInt(process.env.THIN_FIX_CONCURRENCY ?? "2")
THIN_CONCURRENCY == 2
\* migration: "dailyQuota" INTEGER NOT NULL DEFAULT 10
DefaultDailyQuota == 10
\* GLOBAL_DAILY_CAP when unset or invalid: no number is as large
Infinity == -1
\* DAILY_QUOTA_MULTIPLIER is a multiple of 1 / MultDen in the model, so that
\* dailyQuota * multiplier is exact as it is for such values in the code
MultDen == 2

PromptIds == 1..MaxPrompts
\* SUPPORTED_LOCALES, in the order of locales.ts
Locales == 1..NumLocales
\* const { pageId, locales = [...SUPPORTED_LOCALES] } = job.data
SupportedSeq == [i \in 1..NumLocales |-> i]
Texts == 1..NumTexts
PageIds == 1..MaxPages
Cats == 1..NumCats
Tags == {"t1", "t2"}
\* the tag lists the Content Tagger returns in the model
TaggerTagSets == {{"t1"}, {"t1", "t2"}}

VARIABLES
    generationEnabled,  \* env GENERATION_ENABLED
    catState,           \* PromptCategory rows: "NONE" | "ACTIVE" | "INACTIVE"
    gpStatus,           \* GenerationPrompt.status per row id, "NONE" = no row
    gpHash,             \* GenerationPrompt.hash
    gpAttempts,         \* GenerationPrompt.attempts
    pgQueue,            \* waiting prompt-generate messages
    pgJobs,             \* prompt-generate deliveries in progress
    aiQueue,            \* waiting ai-generate messages
    agJobs,             \* ai-generate deliveries in progress
    pageStatus,         \* ColoringPage.status per row id, "NONE" = no row
    pagePublished,      \* ColoringPage.published
    pageTags,           \* ColoringPage.pageTags
    pageOf,             \* GenerationPrompt row whose delivery created the page
    trQueue,            \* waiting translate-page messages
    nextMid,            \* next queue message id
    adminLeft,          \* administrative actions still allowed by the bound
    cgFails,            \* history: consecutive Content Generator failures per row
    exhausted,          \* history: the row was set SKIPPED after MAX_ATTEMPTS
                        \* consecutive Content Generator failures
    gpCat,              \* GenerationPrompt.categoryId
    pageCat,            \* ColoringPage.category (the slug of the category)
    translationEnabled, \* env TRANSLATION_ENABLED
    translationBatchSize, \* env TRANSLATION_BATCH_SIZE
    categoryRows,       \* slugs that have a Category row
    trRows,             \* ColoringPageTranslation rows per (page, locale)
    locJobs,            \* translate-page deliveries in progress
    linkQueue,          \* waiting link-boost messages
    locDone,            \* summary of the translate-page delivery that ended last
    linkRows,           \* PageLink rows
    linkJobs,           \* link-boost deliveries in progress
    linkPrev,           \* history: the links of a page when its last run ended,
                        \* and the rows that run upserted
    thinQueue,          \* waiting thin-fix messages
    thinJobs,           \* thin-fix deliveries in progress
    thinVerdict,        \* the row the last single-mode delivery read, and isThin of it
    thinDone,           \* the counts of the thin-fix delivery that ended last
    maxAttempts,        \* env AI_MAX_ATTEMPTS, MAX_ATTEMPTS when unset
    locWorkers,         \* translate-page deliveries that can run at once
    related,            \* what getRelatedPages returned last, and from where
    catQuota,           \* PromptCategory.dailyQuota
    multNum,            \* env DAILY_QUOTA_MULTIPLIER, as multNum / MultDen
    globalCap,          \* env GLOBAL_DAILY_CAP, Infinity when unset
    priorToday,         \* GenerationPrompt rows created today before the model starts
    govPc,              \* position of the generate-daily run
    govRemaining,       \* remainingCap of the run
    govEntries,         \* jobEntries of the run
    lastOp,             \* the operation of the last step and its target
    calls               \* external collaborators called by the last step

genVars == <<generationEnabled, catState, gpStatus, gpHash, gpAttempts,
             pgQueue, pgJobs, aiQueue, agJobs, pageStatus, pagePublished,
             pageTags, pageOf, trQueue, nextMid, adminLeft>>

\* variables of the stages after the Asset Generator
linkVars == <<linkRows, linkJobs, linkPrev>>

thinVars == <<thinQueue, thinJobs, thinVerdict, thinDone>>

\* the configuration, the last read of the presentation and the governor
govVars == <<maxAttempts, locWorkers, related, catQuota, multNum, globalCap, priorToday,
            govPc, govRemaining, govEntries>>

\* what the Localization Stage never writes
tailVars == <<linkVars, thinVars, govVars>>

stageVars == <<translationEnabled, translationBatchSize, categoryRows, trRows,
               locJobs, linkQueue, locDone, tailVars>>

otherVars == <<gpCat, pageCat, stageVars>>

\* what the stages after the Asset Generator never write
gpSide == <<generationEnabled, catState, gpStatus, gpHash, gpAttempts, gpCat,
            pgQueue, pgJobs, aiQueue, agJobs, adminLeft, cgFails, exhausted>>

\* what the Prompt Synthesizer and the administrative actions never write
restVars == <<cgFails, exhausted, otherVars>>

vars == <<genVars, restVars, lastOp, calls>>

\* -------------------------------------------------------------------------
\* Helpers
\* -------------------------------------------------------------------------
\* crypto.createHash("sha256").update(text).digest("hex"): a digest of the
\* text, a value of another type than the text, equal for equal texts.
sha256(text) ==
    <<"sha256", text>>

\* the row found by generationPrompt.findUnique({ where: { hash } }), or none
ExistingByHash(h) ==
    {r \in PromptIds : gpStatus[r] # "NONE" /\ gpHash[r] = h}

HashUniqueMutant(h) ==
    TRUE

\* CREATE UNIQUE INDEX "GenerationPrompt_hash_key": an insert is accepted only
\* when no row holds the hash.
HashUnique(h) ==
    ExistingByHash(h) = {}

FreePromptIds == {r \in PromptIds : gpStatus[r] = "NONE"}

FreePageIds == {p \in PageIds : pageStatus[p] = "NONE"}

\* no ColoringPageTranslation row for a (page, locale)
NoRow == [seoTitle |-> -2, seoDescription |-> -2, description |-> -2]

\* no link-boost run has ended yet
NoRun == [page |-> 0, rows |-> {}, wrote |-> {}]
\* getRelatedPages was not called yet
NoRead == [page |-> 0, locale |-> 0, cached |-> FALSE, ids |-> {}]

\* no thin-fix delivery has ended yet
NoBatch ==
    [mid |-> 0, mode |-> "none", selected |-> 0, fixed |-> 0, failed |-> 0, threw |-> FALSE]

\* no single-mode thin-fix delivery has read a row yet
NoVerdict == [row |-> NoRow, thin |-> FALSE]

\* no delivery of the Localization Stage has ended yet
NoDelivery ==
    [page |-> 0, locales |-> <<>>, okSet |-> {}, failSet |-> {}, threw |-> {},
     published |-> FALSE]

Min(a, b) == IF a <= b THEN a ELSE b

Max(a, b) == IF a >= b THEN a ELSE b

\* BullMQ: a delivery that throws is delivered again until attempts: 3
\* deliveries were made, then the message is dead-lettered.
Redeliver(queue, m) ==
    IF m.made + 1 < QUEUE_ATTEMPTS
    THEN queue \cup {[m EXCEPT !.made = m.made + 1]}
    ELSE queue

\* sequences over S of length 0..n
RECURSIVE SeqsUpTo(_, _)
SeqsUpTo(S, n) ==
    IF n = 0 THEN {<<>>}
    ELSE LET shorter == SeqsUpTo(S, n - 1)
         IN shorter \cup {Append(s, x) : s \in {t \in shorter : Len(t) = n - 1}, x \in S}

\* -------------------------------------------------------------------------
\* Prompt Synthesizer: processPromptGenerateJob (prompt-generate queue)
\* -------------------------------------------------------------------------
ItemSeqs == SeqsUpTo(Texts, MaxItems)

\* if (count < 1 || count > 50) throw new RangeError(...)
CountInRange(count) ==
    count >= 1 /\ count <= MAX_BATCH_COUNT

\* return items.slice(0, count)
BatchFor(count) ==
    {items \in ItemSeqs : Len(items) <= count}

\* A delivery starts: the category is read, then generatePromptBatch is
\* called.  A missing category throws, an inactive one completes the job.
PgStart(m) ==
    /\ m \in pgQueue
    /\ Cardinality(pgJobs) < SynthWorkers
    /\ \/ /\ catState[m.cat] = "NONE"
          /\ pgQueue' = Redeliver(pgQueue \ {m}, m)
          /\ pgJobs' = pgJobs
          /\ lastOp' = <<"pg_missing_category", m.cat>>
          /\ calls' = {}
       \/ /\ catState[m.cat] = "INACTIVE"
          /\ pgQueue' = pgQueue \ {m}
          /\ pgJobs' = pgJobs
          /\ lastOp' = <<"pg_inactive", m.cat>>
          /\ calls' = {}
       \/ /\ catState[m.cat] = "ACTIVE"
          /\ calls' = {"IdeaGenerator"}
          /\ \/ /\ pgQueue' = Redeliver(pgQueue \ {m}, m)
                /\ pgJobs' = pgJobs
                /\ lastOp' = <<"pg_generator_failed", m.cat>>
             \/ \E items \in BatchFor(m.count) :
                /\ CountInRange(m.count)
                /\ pgQueue' = pgQueue \ {m}
                /\ pgJobs' = pgJobs \cup
                      {[mid |-> m.mid, cat |-> m.cat, count |-> m.count, made |-> m.made,
                        items |-> items, pc |-> "find", cur |-> 0]}
                /\ lastOp' = <<"pg_items", m.cat>>
    /\ UNCHANGED <<generationEnabled, catState, gpStatus, gpHash, gpAttempts,
                   aiQueue, agJobs, pageStatus, pagePublished, pageTags, pageOf,
                   trQueue, nextMid, adminLeft>>
    /\ UNCHANGED restVars

\* for (const item of items): findUnique({ where: { hash } }); an existing
\* row skips the item; after the last item the job completes.
PgFind(j) ==
    /\ j \in pgJobs
    /\ j.pc = "find"
    /\ calls' = {}
    /\ IF j.items = <<>>
       THEN /\ pgJobs' = pgJobs \ {j}
            /\ lastOp' = <<"pg_done", j.cat>>
       ELSE IF ExistingByHash(sha256(Head(j.items))) # {}
       THEN /\ pgJobs' = (pgJobs \ {j}) \cup {[j EXCEPT !.items = Tail(j.items)]}
            /\ lastOp' = <<"pg_skip_duplicate", Head(j.items)>>
       ELSE /\ pgJobs' = (pgJobs \ {j}) \cup {[j EXCEPT !.pc = "create"]}
            /\ lastOp' = <<"pg_new_hash", Head(j.items)>>
    /\ UNCHANGED <<generationEnabled, catState, gpStatus, gpHash, gpAttempts,
                   pgQueue, aiQueue, agJobs, pageStatus, pagePublished, pageTags,
                   pageOf, trQueue, nextMid, adminLeft>>
    /\ UNCHANGED restVars

\* generationPrompt.create({ status: "PENDING", attempts: 0, hash }); the
\* unique index rejects a hash that a concurrent job inserted meanwhile, and
\* the rejection propagates out of the job.
PgCreate(j) ==
    /\ j \in pgJobs
    /\ j.pc = "create"
    /\ calls' = {}
    /\ LET h == sha256(Head(j.items))
       IN IF HashUnique(h)
          THEN /\ FreePromptIds # {}
               /\ LET r == CHOOSE x \in FreePromptIds : \A y \in FreePromptIds : x <= y
                  IN /\ gpStatus' = [gpStatus EXCEPT ![r] = "PENDING"]
                     /\ gpHash' = [gpHash EXCEPT ![r] = h]
                     /\ gpAttempts' = [gpAttempts EXCEPT ![r] = 0]
                     /\ gpCat' = [gpCat EXCEPT ![r] = j.cat]
                     /\ pgJobs' = (pgJobs \ {j}) \cup {[j EXCEPT !.pc = "enqueue", !.cur = r]}
                     /\ lastOp' = <<"pg_created", r>>
               /\ pgQueue' = pgQueue
          ELSE /\ pgJobs' = pgJobs \ {j}
               /\ pgQueue' = Redeliver(pgQueue, [mid |-> j.mid, cat |-> j.cat,
                                                 count |-> j.count, made |-> j.made])
               /\ lastOp' = <<"pg_unique_violation", Head(j.items)>>
               /\ UNCHANGED <<gpStatus, gpHash, gpAttempts, gpCat>>
    /\ UNCHANGED <<generationEnabled, catState, aiQueue, agJobs, pageStatus,
                   pagePublished, pageTags, pageOf, trQueue, nextMid, adminLeft>>
    /\ UNCHANGED <<cgFails, exhausted, pageCat, stageVars>>

\* aiGenerateQueue.add("generate", { generationPromptId: prompt.id }); when
\* the queue rejects the add, the error propagates out of the job and the row
\* that was created stays as it is.
PgEnqueue(j) ==
    /\ j \in pgJobs
    /\ j.pc = "enqueue"
    /\ \/ /\ nextMid <= MaxMsgs
          /\ aiQueue' = aiQueue \cup {[mid |-> nextMid, gp |-> j.cur, made |-> 0]}
          /\ nextMid' = nextMid + 1
          /\ pgJobs' = (pgJobs \ {j}) \cup {[j EXCEPT !.pc = "update"]}
          /\ pgQueue' = pgQueue
          /\ lastOp' = <<"pg_enqueued", j.cur>>
       \/ /\ pgJobs' = pgJobs \ {j}
          /\ pgQueue' = Redeliver(pgQueue, [mid |-> j.mid, cat |-> j.cat,
                                            count |-> j.count, made |-> j.made])
          /\ lastOp' = <<"pg_enqueue_failed", j.cur>>
          /\ UNCHANGED <<aiQueue, nextMid>>
    /\ calls' = {}
    /\ UNCHANGED <<generationEnabled, catState, gpStatus, gpHash, gpAttempts,
                   agJobs, pageStatus, pagePublished, pageTags, pageOf,
                   trQueue, adminLeft>>
    /\ UNCHANGED restVars

\* generationPrompt.update({ where: { id }, data: { status: "PROCESSING" } })
PgUpdate(j) ==
    /\ j \in pgJobs
    /\ j.pc = "update"
    /\ gpStatus' = [gpStatus EXCEPT ![j.cur] = "PROCESSING"]
    /\ pgJobs' = (pgJobs \ {j}) \cup {[j EXCEPT !.pc = "find", !.items = Tail(j.items), !.cur = 0]}
    /\ lastOp' = <<"pg_set_processing", j.cur>>
    /\ calls' = {}
    /\ UNCHANGED <<generationEnabled, catState, gpHash, gpAttempts, pgQueue,
                   aiQueue, agJobs, pageStatus, pagePublished, pageTags, pageOf,
                   trQueue, nextMid, adminLeft>>
    /\ UNCHANGED restVars

\* -------------------------------------------------------------------------
\* Asset Generator: processAiGenerateJob (ai-generate queue)
\* -------------------------------------------------------------------------
\* data: { attempts: { increment: 1 } }
IncrementAttempts(a) ==
    a + 1

IsTerminalMutant(status) ==
    status = "DONE"

\* genPrompt.status === "DONE" || genPrompt.status === "SKIPPED"
IsTerminal(status) ==
    status = "DONE" \/ status = "SKIPPED"

\* A delivery starts: GENERATION_ENABLED is checked, the row is read, and a
\* row that is already DONE or SKIPPED ends the delivery at once.
AgStart(m) ==
    /\ m \in aiQueue
    /\ Cardinality(agJobs) < CONCURRENCY
    /\ calls' = {}
    /\ IF ~generationEnabled
       THEN /\ aiQueue' = aiQueue \ {m}
            /\ agJobs' = agJobs
            /\ lastOp' = <<"ag_disabled", m.gp>>
       ELSE IF gpStatus[m.gp] = "NONE"
       THEN /\ aiQueue' = Redeliver(aiQueue \ {m}, m)
            /\ agJobs' = agJobs
            /\ lastOp' = <<"ag_not_found", m.gp>>
       ELSE IF IsTerminal(gpStatus[m.gp])
       THEN /\ aiQueue' = aiQueue \ {m}
            /\ agJobs' = agJobs
            /\ lastOp' = <<"ag_skip_terminal", m.gp>>
       ELSE /\ aiQueue' = aiQueue \ {m}
            /\ agJobs' = agJobs \cup
                  {[mid |-> m.mid, gp |-> m.gp, made |-> m.made, pc |-> "increment",
                    cur |-> 0, page |-> 0]}
            /\ lastOp' = <<"ag_fetched", m.gp>>
    /\ UNCHANGED <<generationEnabled, catState, gpStatus, gpHash, gpAttempts,
                   pgQueue, pgJobs, pageStatus, pagePublished, pageTags, pageOf,
                   trQueue, nextMid, adminLeft>>
    /\ UNCHANGED restVars

\* generationPrompt.update({ attempts: { increment: 1 }, status: "PROCESSING" })
AgIncrement(j) ==
    /\ j \in agJobs
    /\ j.pc = "increment"
    /\ gpAttempts' = [gpAttempts EXCEPT ![j.gp] = IncrementAttempts(gpAttempts[j.gp])]
    /\ gpStatus' = [gpStatus EXCEPT ![j.gp] = "PROCESSING"]
    /\ agJobs' = (agJobs \ {j}) \cup
          {[j EXCEPT !.pc = "generate", !.cur = IncrementAttempts(gpAttempts[j.gp])]}
    /\ lastOp' = <<"ag_incremented", j.gp>>
    /\ calls' = {}
    /\ UNCHANGED <<generationEnabled, catState, gpHash, pgQueue, pgJobs, aiQueue,
                   pageStatus, pagePublished, pageTags, pageOf, trQueue, nextMid,
                   adminLeft>>
    /\ UNCHANGED restVars

\* generateColoringImage(promptText): returns the image or throws
AgGenerate(j) ==
    /\ j \in agJobs
    /\ j.pc = "generate"
    /\ calls' = {"ContentGenerator"}
    /\ \E ok \in BOOLEAN :
          /\ agJobs' = (agJobs \ {j}) \cup {[j EXCEPT !.pc = IF ok THEN "upload" ELSE "catch"]}
          /\ lastOp' = <<IF ok THEN "ag_generated" ELSE "ag_generator_failed", j.gp>>
          /\ cgFails' = [cgFails EXCEPT ![j.gp] = IF ok THEN 0 ELSE Min(@ + 1, maxAttempts + 1)]
    /\ UNCHANGED <<generationEnabled, catState, gpStatus, gpHash, gpAttempts,
                   pgQueue, pgJobs, aiQueue, pageStatus, pagePublished, pageTags,
                   pageOf, trQueue, nextMid, adminLeft>>
    /\ UNCHANGED <<exhausted, otherVars>>

\* uploadBuffer(r2Key, imageBuffer) and coloringPage.create({ status: "DRAFT",
\* published: false }); a failed upload is caught by the outer catch.
AgUploadCreate(j) ==
    /\ j \in agJobs
    /\ j.pc = "upload"
    /\ calls' = {"BlobStore"}
    /\ \/ /\ agJobs' = (agJobs \ {j}) \cup {[j EXCEPT !.pc = "catch"]}
          /\ lastOp' = <<"ag_upload_failed", j.gp>>
          /\ UNCHANGED <<pageStatus, pagePublished, pageTags, pageOf, pageCat>>
       \/ /\ FreePageIds # {}
          /\ LET p == CHOOSE x \in FreePageIds : \A y \in FreePageIds : x <= y
             IN /\ pageStatus' = [pageStatus EXCEPT ![p] = "DRAFT"]
                /\ pagePublished' = [pagePublished EXCEPT ![p] = FALSE]
                /\ pageTags' = [pageTags EXCEPT ![p] = {}]
                /\ pageOf' = [pageOf EXCEPT ![p] = j.gp]
                /\ pageCat' = [pageCat EXCEPT ![p] = gpCat[j.gp]]
                /\ agJobs' = (agJobs \ {j}) \cup {[j EXCEPT !.pc = "enrich", !.page = p]}
                /\ lastOp' = <<"ag_page_created", j.gp>>
    /\ UNCHANGED <<generationEnabled, catState, gpStatus, gpHash, gpAttempts,
                   pgQueue, pgJobs, aiQueue, trQueue, nextMid, adminLeft>>
    /\ UNCHANGED <<cgFails, exhausted, gpCat, stageVars>>

\* the inner try: generateSeoMetadata, tag upserts, coloringPage.update that
\* connects the tags, translateQueue.add; any of them failing is swallowed by
\* the inner catch.
AgEnrich(j) ==
    /\ j \in agJobs
    /\ j.pc = "enrich"
    /\ calls' = {"ContentTagger"}
    /\ agJobs' = (agJobs \ {j}) \cup {[j EXCEPT !.pc = "done"]}
    /\ \/ /\ lastOp' = <<"ag_tagger_failed", j.gp>>
          /\ UNCHANGED <<pageTags, trQueue, nextMid>>
       \/ \E ts \in TaggerTagSets :
          /\ pageTags' = [pageTags EXCEPT ![j.page] = ts]
          /\ \/ /\ lastOp' = <<"ag_translate_enqueue_failed", j.gp>>
                /\ UNCHANGED <<trQueue, nextMid>>
             \/ /\ nextMid <= MaxMsgs
                /\ trQueue' = trQueue \cup {[mid |-> nextMid, page |-> j.page, made |-> 0,
                                            locales |-> SupportedSeq]}
                /\ nextMid' = nextMid + 1
                /\ lastOp' = <<"ag_enriched", j.gp>>
    /\ UNCHANGED <<generationEnabled, catState, gpStatus, gpHash, gpAttempts,
                   pgQueue, pgJobs, aiQueue, pageStatus, pagePublished, pageOf,
                   adminLeft>>
    /\ UNCHANGED restVars

\* generationPrompt.update({ data: { status: "DONE" } }); the update sits in
\* the outer try, so an error of it is handled by the outer catch.
AgMarkDone(j) ==
    /\ j \in agJobs
    /\ j.pc = "done"
    /\ \/ /\ gpStatus' = [gpStatus EXCEPT ![j.gp] = "DONE"]
          /\ agJobs' = agJobs \ {j}
          /\ lastOp' = <<"ag_done", j.gp>>
       \/ /\ gpStatus' = gpStatus
          /\ agJobs' = (agJobs \ {j}) \cup {[j EXCEPT !.pc = "catch"]}
          /\ lastOp' = <<"ag_done_failed", j.gp>>
    /\ calls' = {}
    /\ UNCHANGED <<generationEnabled, catState, gpHash, gpAttempts, pgQueue,
                   pgJobs, aiQueue, pageStatus, pagePublished, pageTags, pageOf,
                   trQueue, nextMid, adminLeft>>
    /\ UNCHANGED restVars

AttemptsExhaustedMutant(currentAttempts) ==
    currentAttempts > maxAttempts

\* if (currentAttempts >= MAX_ATTEMPTS)
AttemptsExhausted(currentAttempts) ==
    currentAttempts >= maxAttempts

\* the outer catch: currentAttempts >= MAX_ATTEMPTS sets SKIPPED and returns;
\* otherwise FAILED is written and the error is thrown again.
AgCatch(j) ==
    /\ j \in agJobs
    /\ j.pc = "catch"
    /\ agJobs' = agJobs \ {j}
    /\ calls' = {}
    /\ IF AttemptsExhausted(j.cur)
       THEN /\ gpStatus' = [gpStatus EXCEPT ![j.gp] = "SKIPPED"]
            /\ aiQueue' = aiQueue
            /\ lastOp' = <<"ag_skipped", j.gp>>
            /\ exhausted' = [exhausted EXCEPT ![j.gp] = @ \/ cgFails[j.gp] >= maxAttempts]
       ELSE /\ gpStatus' = [gpStatus EXCEPT ![j.gp] = "FAILED"]
            /\ aiQueue' = Redeliver(aiQueue, [mid |-> j.mid, gp |-> j.gp, made |-> j.made])
            /\ lastOp' = <<"ag_failed", j.gp>>
            /\ exhausted' = exhausted
    /\ UNCHANGED <<generationEnabled, catState, gpHash, gpAttempts, pgQueue,
                   pgJobs, pageStatus, pagePublished, pageTags, pageOf, trQueue,
                   nextMid, adminLeft>>
    /\ UNCHANGED <<cgFails, otherVars>>

\* -------------------------------------------------------------------------
\* Administrative actions on a GenerationPrompt row
\* -------------------------------------------------------------------------
\* retryGenerationPrompt: update({ status: "PENDING", attempts: 0 }), queue.add
retryGenerationPrompt(r) ==
    /\ gpStatus[r] # "NONE"
    /\ adminLeft > 0
    /\ nextMid <= MaxMsgs
    /\ gpStatus' = [gpStatus EXCEPT ![r] = "PENDING"]
    /\ gpAttempts' = [gpAttempts EXCEPT ![r] = 0]
    /\ aiQueue' = aiQueue \cup {[mid |-> nextMid, gp |-> r, made |-> 0]}
    /\ nextMid' = nextMid + 1
    /\ adminLeft' = adminLeft - 1
    /\ lastOp' = <<"retry", r>>
    /\ calls' = {}
    /\ UNCHANGED <<generationEnabled, catState, gpHash, pgQueue, pgJobs, agJobs,
                   pageStatus, pagePublished, pageTags, pageOf, trQueue>>
    /\ UNCHANGED restVars

\* disableGenerationPrompt: update({ status: "SKIPPED" }); the button is
\* rendered for rows whose status is not SKIPPED.
disableGenerationPrompt(r) ==
    /\ gpStatus[r] \notin {"NONE", "SKIPPED"}
    /\ adminLeft > 0
    /\ gpStatus' = [gpStatus EXCEPT ![r] = "SKIPPED"]
    /\ adminLeft' = adminLeft - 1
    /\ lastOp' = <<"disable", r>>
    /\ calls' = {}
    /\ UNCHANGED <<generationEnabled, catState, gpHash, gpAttempts, pgQueue,
                   pgJobs, aiQueue, agJobs, pageStatus, pagePublished, pageTags,
                   pageOf, trQueue, nextMid>>
    /\ UNCHANGED restVars

GenerateNowAttemptsMutant(a) ==
    0

\* generateNowPrompt's update data names the status only: attempts is kept
GenerateNowAttempts(a) ==
    a

\* generateNowPrompt: update({ status: "PROCESSING" }), queue.add
generateNowPrompt(r) ==
    /\ gpStatus[r] # "NONE"
    /\ adminLeft > 0
    /\ nextMid <= MaxMsgs
    /\ gpStatus' = [gpStatus EXCEPT ![r] = "PROCESSING"]
    /\ aiQueue' = aiQueue \cup {[mid |-> nextMid, gp |-> r, made |-> 0]}
    /\ nextMid' = nextMid + 1
    /\ adminLeft' = adminLeft - 1
    /\ gpAttempts' = [gpAttempts EXCEPT ![r] = GenerateNowAttempts(@)]
    /\ lastOp' = <<"generate_now", r>>
    /\ calls' = {}
    /\ UNCHANGED <<generationEnabled, catState, gpHash, pgQueue,
                   pgJobs, agJobs, pageStatus, pagePublished, pageTags, pageOf,
                   trQueue>>
    /\ UNCHANGED restVars

\* -------------------------------------------------------------------------
\* Localization Stage: processTranslatePageJob (translate-page queue)
\* -------------------------------------------------------------------------
Range(f) == {f[i] : i \in DOMAIN f}

\* for (let i = 0; i < locales.length; i += batchSize): the number of batches
NumBatches(locales, bs) ==
    (Len(locales) + bs - 1) \div bs

\* locales.slice(i, i + batchSize) of batch b (b = 1 is the first batch), as
\* the positions it covers
BatchPositions(locales, bs, b) ==
    {i \in 1..Len(locales) : (b - 1) * bs < i /\ i <= b * bs}

BatchLocales(locales, bs, b) ==
    {locales[i] : i \in BatchPositions(locales, bs, b)}

\* the fields of a stored translation the thin check reads; a string is
\* modelled by its length, null by -1. TranslationSchema asks for min(1)
\* strings: the row holds the shortest values the schema lets through
TranslatorRow ==
    [seoTitle |-> 1, seoDescription |-> 1, description |-> 1]

AfterThrowMutant(j) ==
    "publish"

\* catch around translateColoringPage: `continue` goes on with the next batch,
\* after the last batch the loop ends
AfterThrow(j) ==
    IF j.idx < NumBatches(j.locales, translationBatchSize) THEN "translate" ELSE "publish"

\* the delivery ended: what it did
Summary(j, published) ==
    [page |-> j.page, locales |-> j.locales, okSet |-> j.okSet, failSet |-> j.failSet,
     threw |-> j.threw, published |-> published]

\* A delivery starts: TRANSLATION_ENABLED is checked and the page is read.
LocStart(m) ==
    /\ m \in trQueue
    /\ Cardinality(locJobs) < locWorkers
    /\ calls' = {}
    /\ IF ~translationEnabled
       THEN /\ trQueue' = trQueue \ {m}
            /\ locJobs' = locJobs
            /\ lastOp' = <<"loc_disabled", m.page>>
       ELSE IF pageStatus[m.page] = "NONE"
       THEN /\ trQueue' = Redeliver(trQueue \ {m}, m)
            /\ locJobs' = locJobs
            /\ lastOp' = <<"loc_page_not_found", m.page>>
       ELSE /\ trQueue' = trQueue \ {m}
            /\ locJobs' = locJobs \cup
                  {[mid |-> m.mid, page |-> m.page, made |-> m.made, locales |-> m.locales,
                    pc |-> "category", idx |-> 1, pos |-> 1, returned |-> {},
                    okSet |-> {}, failSet |-> {}, threw |-> {}]}
            /\ lastOp' = <<"loc_started", m.page>>
    /\ UNCHANGED <<pageStatus, pagePublished, pageTags, pageOf, pageCat, nextMid>>
    /\ UNCHANGED <<translationEnabled, translationBatchSize, categoryRows, trRows,
                   linkQueue, locDone>>
    /\ UNCHANGED <<gpSide, tailVars>>

\* category.findFirst({ slug: page.category }), and category.create when none
\* was found; Category_slug_key rejects a second row for the slug
LocCategory(j) ==
    /\ j \in locJobs
    /\ j.pc \in {"category", "createCategory"}
    /\ calls' = {}
    /\ IF j.pc = "category"
       THEN /\ locJobs' = (locJobs \ {j}) \cup
                  {[j EXCEPT !.pc = IF pageCat[j.page] \in categoryRows
                                    THEN "translate" ELSE "createCategory"]}
            /\ lastOp' = <<"loc_category_read", j.page>>
            /\ UNCHANGED <<categoryRows, trQueue>>
       ELSE IF pageCat[j.page] \notin categoryRows
       THEN /\ categoryRows' = categoryRows \cup {pageCat[j.page]}
            /\ locJobs' = (locJobs \ {j}) \cup {[j EXCEPT !.pc = "translate"]}
            /\ lastOp' = <<"loc_category_created", j.page>>
            /\ trQueue' = trQueue
       ELSE /\ locJobs' = locJobs \ {j}
            /\ trQueue' = Redeliver(trQueue, [mid |-> j.mid, page |-> j.page,
                                              made |-> j.made, locales |-> j.locales])
            /\ lastOp' = <<"loc_category_conflict", j.page>>
            /\ categoryRows' = categoryRows
    /\ UNCHANGED <<pageStatus, pagePublished, pageTags, pageOf, pageCat, nextMid>>
    /\ UNCHANGED <<translationEnabled, translationBatchSize, trRows, linkQueue, locDone>>
    /\ UNCHANGED <<gpSide, tailVars>>

\* translateColoringPage(baseData, batchLocales): throws, or returns the
\* translations of some of the locales of the batch
LocTranslate(j) ==
    /\ j \in locJobs
    /\ j.pc = "translate"
    /\ calls' = {"Translator"}
    /\ LET batch == BatchLocales(j.locales, translationBatchSize, j.idx)
           first == CHOOSE i \in BatchPositions(j.locales, translationBatchSize, j.idx) :
                       \A k \in BatchPositions(j.locales, translationBatchSize, j.idx) : i <= k
       IN \/ /\ locJobs' = (locJobs \ {j}) \cup
                   {[j EXCEPT !.failSet = @ \cup batch, !.threw = @ \cup {j.idx},
                              !.idx = @ + 1, !.pc = AfterThrow(j)]}
             /\ lastOp' = <<"loc_translator_threw", j.page>>
          \/ \E ret \in SUBSET batch :
             /\ locJobs' = (locJobs \ {j}) \cup
                   {[j EXCEPT !.returned = ret, !.pos = first, !.pc = "persist"]}
             /\ lastOp' = <<"loc_translated", j.page>>
    /\ UNCHANGED <<pageStatus, pagePublished, pageTags, pageOf, pageCat, trQueue, nextMid>>
    /\ UNCHANGED <<translationEnabled, translationBatchSize, categoryRows, trRows,
                   linkQueue, locDone>>
    /\ UNCHANGED <<gpSide, tailVars>>

\* the next position after pos: the same batch, the next batch or the end
Advance(j) ==
    IF j.pos + 1 \in BatchPositions(j.locales, translationBatchSize, j.idx)
    THEN [j EXCEPT !.pos = @ + 1]
    ELSE [j EXCEPT !.idx = @ + 1,
                   !.pc = IF j.idx < NumBatches(j.locales, translationBatchSize)
                          THEN "translate" ELSE "publish"]

\* one locale of the batch: a locale missing in the result is recorded as
\* failed; otherwise coloringPageTranslation.upsert, categoryTranslation.upsert
\* and the tagTranslation upserts run in one try, and an error of any of them
\* records the locale as failed
LocPersist(j) ==
    /\ j \in locJobs
    /\ j.pc = "persist"
    /\ calls' = {}
    /\ LET l == j.locales[j.pos]
       IN IF l \notin j.returned
          THEN /\ locJobs' = (locJobs \ {j}) \cup {Advance([j EXCEPT !.failSet = @ \cup {l}])}
               /\ lastOp' = <<"loc_missing_in_batch", j.page>>
               /\ trRows' = trRows
          ELSE \/ /\ trRows' = [trRows EXCEPT ![j.page][l] = TranslatorRow]
                  /\ locJobs' = (locJobs \ {j}) \cup {Advance([j EXCEPT !.okSet = @ \cup {l}])}
                  /\ lastOp' = <<"loc_saved", j.page>>
               \/ /\ trRows' = trRows
                  /\ locJobs' = (locJobs \ {j}) \cup {Advance([j EXCEPT !.failSet = @ \cup {l}])}
                  /\ lastOp' = <<"loc_translation_upsert_failed", j.page>>
               \/ /\ trRows' = [trRows EXCEPT ![j.page][l] = TranslatorRow]
                  /\ locJobs' = (locJobs \ {j}) \cup {Advance([j EXCEPT !.failSet = @ \cup {l}])}
                  /\ lastOp' = <<"loc_later_upsert_failed", j.page>>
    /\ UNCHANGED <<pageStatus, pagePublished, pageTags, pageOf, pageCat, trQueue, nextMid>>
    /\ UNCHANGED <<translationEnabled, translationBatchSize, categoryRows, linkQueue, locDone>>
    /\ UNCHANGED <<gpSide, tailVars>>

DefaultLocaleOkNever(j) ==
    FALSE

DefaultLocaleOkMutant(j) ==
    j.okSet # {}

\* results.some((r) => r.locale === DEFAULT_LOCALE && r.ok)
DefaultLocaleOk(j) ==
    DEFAULT_LOCALE \in j.okSet

StatusAfterBatchesUnwritten(j, status) ==
    status

StatusAfterBatchesMutant(j, status) ==
    IF DefaultLocaleOk(j) THEN "PUBLISHED" ELSE "DRAFT"

\* if (defaultLocaleOk) coloringPage.update({ status: "PUBLISHED", ... });
\* the else branch only logs "remains DRAFT" and writes nothing
StatusAfterBatches(j, status) ==
    IF DefaultLocaleOk(j) THEN "PUBLISHED" ELSE status

AllFailedMutant(j) ==
    j.failSet # {}

\* if (saved === 0) throw: no entry of results has ok: true
AllFailed(j) ==
    j.okSet = {}

\* after the batches: coloringPage.update({ status: "PUBLISHED", published:
\* true }) when the default locale was saved; otherwise the delivery ends, and
\* it throws when no locale was saved
LocPublish(j) ==
    /\ j \in locJobs
    /\ j.pc = "publish"
    /\ calls' = {}
    /\ pageStatus' = [pageStatus EXCEPT ![j.page] = StatusAfterBatches(j, @)]
    /\ pagePublished' = [pagePublished EXCEPT ![j.page] = DefaultLocaleOk(j) \/ @]
    /\ IF DefaultLocaleOk(j)
       THEN /\ locJobs' = (locJobs \ {j}) \cup {[j EXCEPT !.pc = "link"]}
            /\ lastOp' = <<"loc_published", j.page>>
            /\ UNCHANGED <<trQueue, locDone>>
       ELSE /\ locJobs' = locJobs \ {j}
            /\ locDone' = Summary(j, FALSE)
            /\ IF AllFailed(j)
               THEN /\ trQueue' = Redeliver(trQueue, [mid |-> j.mid, page |-> j.page,
                                                      made |-> j.made, locales |-> j.locales])
                    /\ lastOp' = <<"loc_all_failed", j.page>>
               ELSE /\ trQueue' = trQueue
                    /\ lastOp' = <<"loc_done_draft", j.page>>
    /\ UNCHANGED <<pageTags, pageOf, pageCat, nextMid>>
    /\ UNCHANGED <<translationEnabled, translationBatchSize, categoryRows, trRows, linkQueue>>
    /\ UNCHANGED <<gpSide, tailVars>>

LinkEnqueueCatchMutant(j, queue) ==
    Redeliver(queue, [mid |-> j.mid, page |-> j.page, made |-> j.made,
                      locales |-> j.locales])

\* catch (err) { console.warn(...) } around linkBoostQueue.add: the error is
\* logged and not thrown on, the translate-page queue sees a completed job
LinkEnqueueCatch(j, queue) ==
    queue

\* linkBoostQueue.add("link-boost", { pageId }) in a try of its own: a failed
\* enqueue is logged; then the summary, and the delivery ends
LocEnqueueLink(j) ==
    /\ j \in locJobs
    /\ j.pc = "link"
    /\ calls' = {}
    /\ locJobs' = locJobs \ {j}
    /\ locDone' = Summary(j, TRUE)
    /\ \/ /\ nextMid <= MaxMsgs
          /\ linkQueue' = linkQueue \cup {[mid |-> nextMid, page |-> j.page, made |-> 0]}
          /\ nextMid' = nextMid + 1
          /\ lastOp' = <<"loc_link_enqueued", j.page>>
          /\ trQueue' = trQueue
       \/ /\ UNCHANGED <<linkQueue, nextMid>>
          /\ trQueue' = LinkEnqueueCatch(j, trQueue)
          /\ lastOp' = <<"loc_link_enqueue_failed", j.page>>
    /\ UNCHANGED <<pageStatus, pagePublished, pageTags, pageOf, pageCat>>
    /\ UNCHANGED <<translationEnabled, translationBatchSize, categoryRows, trRows>>
    /\ UNCHANGED <<gpSide, tailVars>>

\* requeue-translate-drafts: coloringPage.findMany({ status: "DRAFT" }) and
\* queue.addBulk of one translate-page message { pageId } per DRAFT page; the
\* jobs carry no attempts option, so each is delivered once. With no DRAFT
\* page the script exits.
RequeueTranslateDrafts ==
    LET drafts == {p \in PageIds : pageStatus[p] = "DRAFT"}
        Rank(p) == Cardinality({q \in drafts : q < p})
    IN /\ drafts # {}
       /\ nextMid + Cardinality(drafts) - 1 <= MaxMsgs
       /\ trQueue' = trQueue \cup
             {[mid |-> nextMid + Rank(p), page |-> p, made |-> QUEUE_ATTEMPTS - 1,
               locales |-> SupportedSeq] : p \in drafts}
       /\ nextMid' = nextMid + Cardinality(drafts)
       /\ lastOp' = <<"requeue_translate_drafts", Cardinality(drafts)>>
       /\ calls' = {}
       /\ UNCHANGED <<pageStatus, pagePublished, pageTags, pageOf, pageCat>>
       /\ UNCHANGED <<translationEnabled, translationBatchSize, categoryRows, trRows,
                      locJobs, linkQueue, locDone>>
       /\ UNCHANGED <<gpSide, tailVars>>

\* -------------------------------------------------------------------------
\* Content Quality Remediator: processThinFixJob (thin-fix queue)
\* -------------------------------------------------------------------------
\* !s of a string | null: null (-1) and the empty string (length 0) are falsy
Falsy(s) ==
    s = -1 \/ s = 0

isThinMutant(tr) ==
    \/ Falsy(tr.seoTitle)
    \/ Falsy(tr.seoDescription)
    \/ Falsy(tr.description)
    \/ tr.description <= DESCRIPTION_MIN_LENGTH

\* !tr.seoTitle || !tr.seoDescription || !tr.description ||
\* tr.description.length < DESCRIPTION_MIN_LENGTH
isThin(tr) ==
    \/ Falsy(tr.seoTitle)
    \/ Falsy(tr.seoDescription)
    \/ Falsy(tr.description)
    \/ tr.description < DESCRIPTION_MIN_LENGTH

\* orderBy: { id: "asc" }: the model orders the rows by (page, locale)
RowIdx(p, l) ==
    (p - 1) * NumLocales + l

RowKeys ==
    {<<p, l>> : p \in PageIds, l \in Locales}

\* the first n keys of K in id order (take: n)
RECURSIVE TakeAsc(_, _)
TakeAsc(K, n) ==
    IF n = 0 \/ K = {} THEN <<>>
    ELSE LET k == CHOOSE x \in K : \A y \in K : RowIdx(x[1], x[2]) <= RowIdx(y[1], y[2])
         IN <<k>> \o TakeAsc(K \ {k}, n - 1)

\* where: page PUBLISHED and one of the three fields null or ""
MissingFieldKeys ==
    {k \in RowKeys : /\ trRows[k[1]][k[2]] # NoRow
                     /\ pageStatus[k[1]] = "PUBLISHED"
                     /\ \/ Falsy(trRows[k[1]][k[2]].seoTitle)
                        \/ Falsy(trRows[k[1]][k[2]].seoDescription)
                        \/ Falsy(trRows[k[1]][k[2]].description)}

\* where: page PUBLISHED and none of the three fields null
AllPresentKeys ==
    {k \in RowKeys : /\ trRows[k[1]][k[2]] # NoRow
                     /\ pageStatus[k[1]] = "PUBLISHED"
                     /\ trRows[k[1]][k[2]].seoTitle # -1
                     /\ trRows[k[1]][k[2]].seoDescription # -1
                     /\ trRows[k[1]][k[2]].description # -1}

\* the rows as read by a query: key and fields
Fetched(keys) ==
    [i \in 1..Len(keys) |-> [page |-> keys[i][1], locale |-> keys[i][2],
                             tr |-> trRows[keys[i][1]][keys[i][2]]]]

\* for (const tr of [...candidates, ...allPresent]): rows seen before are
\* skipped, thin rows are collected, and the loop stops at limit rows
RECURSIVE ToFix(_, _, _, _)
ToFix(rows, i, acc, limit) ==
    IF i > Len(rows) THEN acc
    ELSE IF \E k \in 1..(i - 1) : rows[k].page = rows[i].page /\ rows[k].locale = rows[i].locale
    THEN ToFix(rows, i + 1, acc, limit)
    ELSE LET acc2 == IF isThin(rows[i].tr) THEN Append(acc, rows[i]) ELSE acc
         IN IF Len(acc2) >= limit THEN acc2 ELSE ToFix(rows, i + 1, acc2, limit)

\* ThinFixSchema: description of 120 to 300 characters, seoTitle and
\* seoDescription of at most 60 and 155, the empty string included
ThinFixResults ==
    {[seoTitle |-> t, seoDescription |-> 1, description |-> DESCRIPTION_MIN_LENGTH] :
        t \in {0, 1}}

SkipsSingleMutant(tr) ==
    FALSE

\* if (!isThin(tr)) return
SkipsSingle(tr) ==
    ~isThin(tr)

\* A delivery starts. Single mode: findUnique, return when the row is missing
\* or not thin. Batch mode: the query for rows with a missing field.
ThinStart(m) ==
    /\ m \in thinQueue
    /\ Cardinality(thinJobs) < THIN_CONCURRENCY
    /\ thinQueue' = thinQueue \ {m}
    /\ calls' = {}
    /\ IF m.mode = "single"
       THEN LET tr == trRows[m.page][m.locale]
            IN IF tr = NoRow
               THEN /\ lastOp' = <<"thin_not_found", m.page>>
                    /\ UNCHANGED <<thinJobs, thinVerdict>>
                    /\ thinDone' = [NoBatch EXCEPT !.mid = m.mid, !.mode = "single"]
               ELSE /\ thinVerdict' = [row |-> tr, thin |-> isThin(tr)]
                    /\ IF SkipsSingle(tr)
                       THEN /\ lastOp' = <<"thin_not_thin", m.page>>
                            /\ thinJobs' = thinJobs
                            /\ thinDone' = [NoBatch EXCEPT !.mid = m.mid, !.mode = "single"]
                       ELSE /\ lastOp' = <<"thin_single", m.page>>
                            /\ thinJobs' = thinJobs \cup
                                  {[mid |-> m.mid, mode |-> "single", limit |-> 1, pc |-> "fix",
                                    rows |-> <<[page |-> m.page, locale |-> m.locale, tr |-> tr]>>,
                                    idx |-> 1, fixed |-> 0, failed |-> 0]}
                            /\ thinDone' = thinDone
       ELSE /\ lastOp' = <<"thin_batch_candidates", 0>>
            /\ thinVerdict' = thinVerdict
            /\ thinDone' = thinDone
            /\ thinJobs' = thinJobs \cup
                  {[mid |-> m.mid, mode |-> "batch", limit |-> m.limit, pc |-> "scan",
                    rows |-> Fetched(TakeAsc(MissingFieldKeys, m.limit * 2)), idx |-> 1,
                    fixed |-> 0, failed |-> 0]}
    /\ UNCHANGED <<genVars, cgFails, exhausted, gpCat, pageCat>>
    /\ UNCHANGED <<translationEnabled, translationBatchSize, categoryRows, trRows,
                   locJobs, linkQueue, locDone, linkVars, govVars>>

\* Batch mode: the query for rows with all fields present, then the merge;
\* with nothing to fix the delivery ends
ThinScan(j) ==
    /\ j \in thinJobs
    /\ j.pc = "scan"
    /\ calls' = {}
    /\ LET all == j.rows \o Fetched(TakeAsc(AllPresentKeys, j.limit * 2))
           toFix == ToFix(all, 1, <<>>, j.limit)
       IN IF toFix = <<>>
          THEN /\ thinJobs' = thinJobs \ {j}
               /\ thinDone' = [NoBatch EXCEPT !.mid = j.mid, !.mode = "batch"]
               /\ lastOp' = <<"thin_batch_empty", 0>>
          ELSE /\ thinJobs' = (thinJobs \ {j}) \cup
                     {[j EXCEPT !.rows = toFix, !.pc = "fix", !.idx = 1]}
               /\ thinDone' = thinDone
               /\ lastOp' = <<"thin_batch_selected", Len(toFix)>>
    /\ UNCHANGED <<genVars, cgFails, exhausted, gpCat, pageCat>>
    /\ UNCHANGED <<translationEnabled, translationBatchSize, categoryRows, trRows,
                   locJobs, linkQueue, locDone, linkVars, govVars>>
    /\ UNCHANGED <<thinQueue, thinVerdict>>

\* the delivery after the row at idx: the next row, or the end
ThinAdvance(j) ==
    IF j.idx < Len(j.rows) THEN {[j EXCEPT !.idx = @ + 1]} ELSE {}

\* console.log(`batch done fixed=${fixed} failed=${failed}`), or the error that
\* leaves the processor
ThinSummary(j, threw) ==
    [mid |-> j.mid, mode |-> j.mode, selected |-> Len(j.rows), fixed |-> j.fixed,
     failed |-> j.failed, threw |-> threw]

RowFailureCaughtMutant(j) ==
    FALSE

\* try { await fixTranslation(tr); fixed++ } catch (err) { failed++ } in the
\* batch loop; the single-mode call of fixTranslation has no try around it
RowFailureCaught(j) ==
    j.mode = "batch"

\* fixTranslation(tr): generateThinFixMetadata, then the update of the three
\* fields. In single mode an error ends the delivery as failed (the message
\* has no retries); in batch mode it is counted and the next row follows.
ThinFix(j) ==
    /\ j \in thinJobs
    /\ j.pc = "fix"
    /\ calls' = {"ThinFixGenerator"}
    /\ LET r == j.rows[j.idx]
       IN \/ /\ trRows' = trRows
             /\ lastOp' = <<"thin_fix_failed", r.page>>
             /\ IF RowFailureCaught(j)
                THEN LET j2 == [j EXCEPT !.failed = @ + 1]
                     IN /\ thinJobs' = (thinJobs \ {j}) \cup ThinAdvance(j2)
                        /\ thinDone' = IF ThinAdvance(j2) = {} THEN ThinSummary(j2, FALSE)
                                       ELSE thinDone
                ELSE /\ thinJobs' = thinJobs \ {j}
                     /\ thinDone' = ThinSummary(j, TRUE)
          \/ \E res \in ThinFixResults :
             LET j2 == [j EXCEPT !.fixed = @ + 1]
             IN /\ trRows' = [trRows EXCEPT ![r.page][r.locale] = res]
                /\ thinJobs' = (thinJobs \ {j}) \cup ThinAdvance(j2)
                /\ thinDone' = IF ThinAdvance(j2) = {} THEN ThinSummary(j2, FALSE)
                               ELSE thinDone
                /\ lastOp' = <<"thin_fixed", r.page>>
    /\ UNCHANGED <<genVars, cgFails, exhausted, gpCat, pageCat>>
    /\ UNCHANGED <<translationEnabled, translationBatchSize, categoryRows,
                   locJobs, linkQueue, locDone, linkVars, govVars>>
    /\ UNCHANGED <<thinQueue, thinVerdict>>

\* -------------------------------------------------------------------------
\* Link Indexer: processLinkBoost (link-boost queue)
\* -------------------------------------------------------------------------
\* the subsets of S with k elements
RECURSIVE KSubsets(_, _)
KSubsets(S, k) ==
    IF k = 0 THEN {{}}
    ELSE IF Cardinality(S) < k THEN {}
    ELSE UNION {{X \cup {e} : X \in KSubsets({x \in S : x > e}, k - 1)} : e \in S}

\* c.pageTags.filter((t) => tagIds.includes(t.id)).length
SharedTags(c, tagIds) ==
    Cardinality(pageTags[c] \cap tagIds)

\* where: another page, PUBLISHED, with one of the tags and a translation in
\* the locale
TagEligible(p, tagIds, l) ==
    {c \in PageIds : /\ c # p
                     /\ pageStatus[c] = "PUBLISHED"
                     /\ pageTags[c] \cap tagIds # {}
                     /\ trRows[c][l] # NoRow}

\* take: TAG_LIMIT * 3 without orderBy: any rows of the eligible ones, as many
\* as the limit allows
TakeAny(E, n) ==
    IF Cardinality(E) <= n THEN {E}
    ELSE {E \ X : X \in KSubsets(E, Cardinality(E) - n)}

TopByWeightMutant(F, tagIds, n) ==
    TakeAny(F, n)

\* .sort((a, b) => b.weight - a.weight).slice(0, TAG_LIMIT): the sort is
\* stable, so among candidates of equal weight the order of the query result
\* decides; any n rows such that no row left out weighs more than a row taken
TopByWeight(F, tagIds, n) ==
    IF Cardinality(F) <= n THEN {F}
    ELSE {F \ X : X \in {Y \in KSubsets(F, Cardinality(F) - n) :
                            \A a \in F \ Y, b \in Y :
                                SharedTags(a, tagIds) >= SharedTags(b, tagIds)}}

CatEligibleMutant(p, cat, l) ==
    {c \in PageIds : pageCat[c] = cat /\ trRows[c][l] # NoRow}

\* where: another page, PUBLISHED, of the category, with a translation in the
\* locale
CatEligible(p, cat, l) ==
    {c \in PageIds : /\ c # p
                     /\ pageStatus[c] = "PUBLISHED"
                     /\ pageCat[c] = cat
                     /\ trRows[c][l] # NoRow}

\* orderBy: { createdAt: "desc" }, take: CAT_LIMIT: pages are numbered in the
\* order of their creation
RECURSIVE Newest(_, _)
Newest(E, n) ==
    IF n = 0 \/ E = {} THEN {}
    ELSE LET x == CHOOSE a \in E : \A b \in E : a >= b
         IN {x} \cup Newest(E \ {x}, n - 1)

UpsertLinkMutant(rows, r) ==
    rows \cup {r}

\* pageLink.upsert by fromPageId_toPageId_type_locale: the row of the key is
\* replaced, another key adds a row
UpsertLink(rows, r) ==
    {x \in rows : ~(x.from = r.from /\ x.to = r.to /\ x.type = r.type /\ x.locale = r.locale)}
        \cup {r}

RECURSIVE UpsertAll(_, _)
UpsertAll(rows, new) ==
    IF new = {} THEN rows
    ELSE LET r == CHOOSE x \in new : TRUE
         IN UpsertAll(UpsertLink(rows, r), new \ {r})

\* the PageLink rows that start at page p
RowsFrom(p) ==
    {x \in linkRows : x.from = p}

NotPublishedMutant(status) ==
    FALSE

\* if (page.status !== "PUBLISHED") return
NotPublished(status) ==
    status # "PUBLISHED"

\* A delivery starts: the source page is read; a missing page and a page that
\* is not PUBLISHED end it.
LinkStart(m) ==
    /\ m \in linkQueue
    /\ Cardinality(linkJobs) < LINK_CONCURRENCY
    /\ linkQueue' = linkQueue \ {m}
    /\ calls' = {}
    /\ IF pageStatus[m.page] = "NONE"
       THEN /\ linkJobs' = linkJobs
            /\ lastOp' = <<"link_page_not_found", m.page>>
       ELSE IF NotPublished(pageStatus[m.page])
       THEN /\ linkJobs' = linkJobs
            /\ lastOp' = <<"link_not_published", m.page>>
       ELSE /\ linkJobs' = linkJobs \cup
                  {[mid |-> m.mid, page |-> m.page, cat |-> pageCat[m.page],
                    tagIds |-> pageTags[m.page], locale |-> 1, wrote |-> {}]}
            /\ lastOp' = <<"link_started", m.page>>
    /\ UNCHANGED <<genVars, cgFails, exhausted, gpCat, pageCat>>
    /\ UNCHANGED <<translationEnabled, translationBatchSize, categoryRows, trRows,
                   locJobs, locDone, linkRows, linkPrev, thinVars, govVars>>

\* One locale of for (const locale of SUPPORTED_LOCALES): the TAG_RELATED
\* candidates are read, weighted, cut and upserted, then the CATEGORY_RELATED
\* ones; after the last locale the delivery ends.
LinkLocale(j) ==
    /\ j \in linkJobs
    /\ calls' = {}
    /\ \E fetched \in TakeAny(TagEligible(j.page, j.tagIds, j.locale), TAG_LIMIT * 3) :
       \E tagged \in TopByWeight(fetched, j.tagIds, TAG_LIMIT) :
          LET tagLinks == IF j.tagIds = {} THEN {}
                          ELSE {[from |-> j.page, to |-> c, type |-> "TAG_RELATED",
                                 locale |-> j.locale,
                                 weight |-> SharedTags(c, j.tagIds)] : c \in tagged}
              catLinks == {[from |-> j.page, to |-> c, type |-> "CATEGORY_RELATED",
                            locale |-> j.locale, weight |-> 1] :
                               c \in Newest(CatEligible(j.page, j.cat, j.locale), CAT_LIMIT)}
              wrote == j.wrote \cup tagLinks \cup catLinks
          IN /\ linkRows' = UpsertAll(UpsertAll(linkRows, tagLinks), catLinks)
             /\ IF j.locale < NumLocales
                THEN /\ linkJobs' = (linkJobs \ {j}) \cup
                           {[j EXCEPT !.locale = @ + 1, !.wrote = wrote]}
                     /\ linkPrev' = linkPrev
                     /\ lastOp' = <<"link_locale", j.page>>
                ELSE /\ linkJobs' = linkJobs \ {j}
                     /\ linkPrev' = [page |-> j.page,
                                     rows |-> {x \in linkRows' : x.from = j.page},
                                     wrote |-> wrote]
                     /\ lastOp' = <<"link_done", j.page>>
    /\ UNCHANGED <<genVars, cgFails, exhausted, gpCat, pageCat>>
    /\ UNCHANGED <<translationEnabled, translationBatchSize, categoryRows, trRows,
                   locJobs, linkQueue, locDone, thinVars, govVars>>

\* reassignCategories main(): every page gets the category resolveCategory
\* finds in its slug, title and tags; rc is what it finds for the pages
reassignCategories(rc) ==
    /\ adminLeft > 0
    /\ adminLeft' = adminLeft - 1
    /\ pageCat' = [p \in PageIds |-> IF pageStatus[p] = "NONE" THEN pageCat[p]
                                      ELSE IF pageCat[p] # rc[p] THEN rc[p] ELSE pageCat[p]]
    /\ lastOp' = <<"reassign_categories", Cardinality({p \in PageIds : pageCat'[p] # pageCat[p]})>>
    /\ calls' = {}
    /\ UNCHANGED <<generationEnabled, catState, gpStatus, gpHash, gpAttempts,
                   pgQueue, pgJobs, aiQueue, agJobs, pageStatus, pagePublished,
                   pageTags, pageOf, trQueue, nextMid>>
    /\ UNCHANGED <<cgFails, exhausted, gpCat, stageVars>>

\* orderBy: { weight: 'desc' }, take: limit: any n rows such that no row left
\* out weighs more than a row taken
TopRows(R, n) ==
    IF Cardinality(R) <= n THEN {R}
    ELSE {T \in SUBSET R : /\ Cardinality(T) = n
                           /\ \A a \in T, b \in R \ T : a.weight >= b.weight}

\* The fallback of getRelatedPages: up to DYNAMIC_TAG_TAKE pages that share a
\* tag, then pages of the category that were not seen, until limit results
\* are there. Every result the queries can give.
DynamicRelated(p, l, cat, tagIds, limit) ==
    LET byTags == IF tagIds = {} THEN {{}}
                  ELSE UNION {TakeAny(f, limit) :
                                 f \in TakeAny(TagEligible(p, tagIds, l), DYNAMIC_TAG_TAKE)}
    IN UNION {IF Cardinality(byTag) >= limit THEN {byTag}
              ELSE UNION {{byTag \cup fill :
                              fill \in TakeAny(byCat \ byTag, limit - Cardinality(byTag))} :
                            byCat \in TakeAny(CatEligible(p, cat, l), limit)} :
                byTag \in byTags}

\* getRelatedPages({ pageId, locale, category, tagIds }) for a PUBLISHED page:
\* the PageLink rows of the type the tags decide, the limit heaviest of them;
\* their targets that have a translation in the locale are the result, and
\* when there is none the dynamic query is.
getRelatedPages(p, l) ==
    /\ pageStatus[p] = "PUBLISHED"
    /\ LET tagIds == pageTags[p]
           type == IF tagIds # {} THEN "TAG_RELATED" ELSE "CATEGORY_RELATED"
           stored == {x \in linkRows : x.from = p /\ x.locale = l /\ x.type = type}
       IN \E cachedLinks \in TopRows(stored, RELATED_LIMIT) :
             LET results == {x.to : x \in {y \in cachedLinks : trRows[y.to][l] # NoRow}}
             IN IF results # {}
                THEN related' = [page |-> p, locale |-> l, cached |-> TRUE, ids |-> results]
                ELSE \E dyn \in DynamicRelated(p, l, pageCat[p], tagIds, RELATED_LIMIT) :
                        related' = [page |-> p, locale |-> l, cached |-> FALSE, ids |-> dyn]
    /\ lastOp' = <<"get_related", p>>
    /\ calls' = {}
    /\ UNCHANGED <<genVars, cgFails, exhausted, gpCat, pageCat>>
    /\ UNCHANGED <<translationEnabled, translationBatchSize, categoryRows, trRows,
                   locJobs, linkQueue, locDone, linkVars, thinVars>>
    /\ UNCHANGED <<maxAttempts, locWorkers, catQuota, multNum, globalCap, priorToday,
                   govPc, govRemaining, govEntries>>

\* -------------------------------------------------------------------------
\* Quota Governor: generate-daily.ts main()
\* -------------------------------------------------------------------------
\* isFinite(GLOBAL_DAILY_CAP)
IsFinite(x) ==
    x # Infinity

\* Math.ceil(cat.dailyQuota * DAILY_QUOTA_MULTIPLIER)
CeilQuota(q) ==
    (q * multNum + MultDen - 1) \div MultDen

\* generationPrompt.count({ where: { createdAt: { gte: startOfDay } } }): the
\* rows of earlier today and the rows created since
TodayCount ==
    priorToday + Cardinality({r \in PromptIds : gpStatus[r] # "NONE"})

\* the elements of a set of numbers in ascending order
RECURSIVE Ascending(_)
Ascending(S) ==
    IF S = {} THEN <<>>
    ELSE LET x == CHOOSE a \in S : \A b \in S : a <= b
         IN <<x>> \o Ascending(S \ {x})

\* promptCategory.findMany({ where: { isActive: true }, orderBy: { createdAt:
\* "asc" } }): categories are numbered in the order of their creation
ActiveCategories ==
    Ascending({c \in Cats : catState[c] = "ACTIVE"})

ClipToCapMutant(rawCount, left) ==
    rawCount

\* Math.min(rawCount, remainingCap - capUsed)
ClipToCap(rawCount, left) ==
    Min(rawCount, left)

\* for (const cat of categories) { ... }: the jobEntries built from position i
\* on, with capUsed counts given out before
RECURSIVE BuildEntries(_, _, _, _, _)
BuildEntries(cats, i, capUsed, entries, remainingCap) ==
    IF i > Len(cats) THEN entries
    ELSE IF IsFinite(globalCap) /\ capUsed >= remainingCap THEN entries
    ELSE LET rawCount == Max(1, CeilQuota(catQuota[cats[i]]))
             count == IF IsFinite(globalCap)
                      THEN ClipToCap(rawCount, remainingCap - capUsed)
                      ELSE rawCount
         IN IF count <= 0 THEN entries
            ELSE BuildEntries(cats, i + 1, capUsed + count,
                              Append(entries, [cat |-> cats[i], count |-> count]),
                              remainingCap)

\* the run starts: GENERATION_ENABLED, and with a finite cap the count of the
\* rows created today
GovStart ==
    /\ govPc = "idle"
    /\ calls' = {}
    /\ govEntries' = govEntries
    /\ IF ~generationEnabled
       THEN /\ govPc' = "done"
            /\ govRemaining' = govRemaining
            /\ lastOp' = <<"gov_disabled", 0>>
       ELSE IF IsFinite(globalCap)
       THEN /\ govRemaining' = Max(0, globalCap - TodayCount)
            /\ govPc' = IF govRemaining' = 0 THEN "done" ELSE "categories"
            /\ lastOp' = <<IF govRemaining' = 0 THEN "gov_cap_reached" ELSE "gov_counted", 0>>
       ELSE /\ govRemaining' = Infinity
            /\ govPc' = "categories"
            /\ lastOp' = <<"gov_no_cap", 0>>
    /\ UNCHANGED <<genVars, cgFails, exhausted, gpCat, pageCat>>
    /\ UNCHANGED <<translationEnabled, translationBatchSize, categoryRows, trRows,
                   locJobs, linkQueue, locDone, linkVars, thinVars>>
    /\ UNCHANGED <<maxAttempts, locWorkers, related, catQuota, multNum, globalCap, priorToday>>

\* the active categories are read and the jobEntries are built
GovPlan ==
    /\ govPc = "categories"
    /\ calls' = {}
    /\ govRemaining' = govRemaining
    /\ LET cats == ActiveCategories
           entries == BuildEntries(cats, 1, 0, <<>>, govRemaining)
       IN IF cats = <<>>
          THEN /\ govPc' = "done"
               /\ govEntries' = <<>>
               /\ lastOp' = <<"gov_no_categories", 0>>
          ELSE IF entries = <<>>
          THEN /\ govPc' = "done"
               /\ govEntries' = <<>>
               /\ lastOp' = <<"gov_no_jobs", 0>>
          ELSE /\ govPc' = "enqueue"
               /\ govEntries' = entries
               /\ lastOp' = <<"gov_planned", Len(entries)>>
    /\ UNCHANGED <<genVars, cgFails, exhausted, gpCat, pageCat>>
    /\ UNCHANGED <<translationEnabled, translationBatchSize, categoryRows, trRows,
                   locJobs, linkQueue, locDone, linkVars, thinVars>>
    /\ UNCHANGED <<maxAttempts, locWorkers, related, catQuota, multNum, globalCap, priorToday>>

\* queue.addBulk(jobEntries)
GovAddBulk ==
    /\ govPc = "enqueue"
    /\ nextMid + Len(govEntries) - 1 <= MaxMsgs
    /\ calls' = {}
    /\ pgQueue' = pgQueue \cup
          {[mid |-> nextMid + i - 1, cat |-> govEntries[i].cat,
            count |-> govEntries[i].count, made |-> 0] : i \in 1..Len(govEntries)}
    /\ nextMid' = nextMid + Len(govEntries)
    /\ govPc' = "done"
    /\ lastOp' = <<"gov_enqueued", Len(govEntries)>>
    /\ UNCHANGED <<generationEnabled, catState, gpStatus, gpHash, gpAttempts,
                   pgJobs, aiQueue, agJobs, pageStatus, pagePublished,
                   pageTags, pageOf, trQueue, adminLeft>>
    /\ UNCHANGED <<cgFails, exhausted, gpCat, pageCat>>
    /\ UNCHANGED <<translationEnabled, translationBatchSize, categoryRows, trRows,
                   locJobs, linkQueue, locDone, linkVars, thinVars>>
    /\ UNCHANGED <<maxAttempts, locWorkers, related, catQuota, multNum, globalCap, priorToday, govRemaining, govEntries>>

\* generate-daily is started again, by the scheduler or by hand, after the
\* run before it has ended
GovInvoke ==
    /\ govPc = "done"
    /\ govPc' = "idle"
    /\ govRemaining' = Infinity
    /\ govEntries' = <<>>
    /\ lastOp' = <<"gov_invoked", 0>>
    /\ calls' = {}
    /\ UNCHANGED <<genVars, cgFails, exhausted, gpCat, pageCat>>
    /\ UNCHANGED <<translationEnabled, translationBatchSize, categoryRows, trRows,
                   locJobs, linkQueue, locDone, linkVars, thinVars>>
    /\ UNCHANGED <<maxAttempts, locWorkers, related, catQuota, multNum, globalCap, priorToday>>

\* -------------------------------------------------------------------------
\* Initial states and specifications
\* -------------------------------------------------------------------------
\* no generate-daily run yet
InitGovIdle ==
    /\ govPc = "idle"
    /\ govRemaining = Infinity
    /\ govEntries = <<>>

\* no link, nothing to remediate, the governor with its defaults
InitTailBase ==
    /\ linkRows = {}
    /\ linkJobs = {}
    /\ linkPrev = NoRun
    /\ related = NoRead
    /\ thinQueue = {}
    /\ thinJobs = {}
    /\ thinVerdict = NoVerdict
    /\ thinDone = NoBatch
    /\ catQuota = [c \in Cats |-> DefaultDailyQuota]
    /\ multNum = MultDen
    /\ globalCap = Infinity
    /\ priorToday = 0
    /\ InitGovIdle

\* AI_MAX_ATTEMPTS is not set
InitTailIdle ==
    /\ InitTailBase
    /\ maxAttempts = MAX_ATTEMPTS
    /\ locWorkers = LocWorkers

\* the stages after the Asset Generator have nothing to do
InitStagesIdle ==
    /\ translationEnabled = TRUE
    /\ translationBatchSize = 1
    /\ categoryRows = {}
    /\ trRows = [p \in PageIds |-> [l \in Locales |-> NoRow]]
    /\ locJobs = {}
    /\ linkQueue = {}
    /\ locDone = NoDelivery
    /\ InitTailIdle

\* no GenerationPrompt row, no page, nothing queued
InitEmptyStore ==
    /\ gpStatus = [r \in PromptIds |-> "NONE"]
    /\ gpHash = [r \in PromptIds |-> sha256(0)]
    /\ gpAttempts = [r \in PromptIds |-> 0]
    /\ pgJobs = {}
    /\ agJobs = {}
    /\ pageStatus = [p \in PageIds |-> "NONE"]
    /\ pagePublished = [p \in PageIds |-> FALSE]
    /\ pageTags = [p \in PageIds |-> {}]
    /\ pageOf = [p \in PageIds |-> 0]
    /\ trQueue = {}
    /\ cgFails = [r \in PromptIds |-> 0]
    /\ exhausted = [r \in PromptIds |-> FALSE]
    /\ gpCat = [r \in PromptIds |-> 1]
    /\ pageCat = [p \in PageIds |-> 1]
    /\ InitStagesIdle
    /\ lastOp = <<"init", 0>>
    /\ calls = {}

\* two prompt-generate messages are waiting, as enqueued by generate-daily
\* or by the enqueue scripts
InitSynth ==
    /\ InitEmptyStore
    /\ generationEnabled = TRUE
    /\ \E st \in {"NONE", "ACTIVE", "INACTIVE"} :
          catState = [c \in Cats |-> IF c = 1 THEN "ACTIVE" ELSE st]
    /\ \E c2 \in Cats :
          pgQueue = {[mid |-> 1, cat |-> 1, count |-> MaxItems, made |-> 0],
                     [mid |-> 2, cat |-> c2, count |-> MaxItems, made |-> 0]}
    /\ aiQueue = {}
    /\ nextMid = 3
    /\ adminLeft = 0

NextSynth ==
    \/ \E m \in pgQueue : PgStart(m)
    \/ \E j \in pgJobs : PgFind(j)
    \/ \E j \in pgJobs : PgCreate(j)
    \/ \E j \in pgJobs : PgEnqueue(j)
    \/ \E j \in pgJobs : PgUpdate(j)

SpecSynth == InitSynth /\ [][NextSynth]_vars

\* the worker takes every waiting message and finishes every job it started
SpecSynthLive == InitSynth /\ [][NextSynth]_vars /\ WF_vars(NextSynth)

\* a GenerationPrompt row as the Prompt Synthesizer leaves it: PROCESSING,
\* attempts 0, its ai-generate message waiting
InitAdmin ==
    /\ generationEnabled = TRUE
    /\ catState = [c \in Cats |-> "ACTIVE"]
    /\ gpStatus = [r \in PromptIds |-> IF r = 1 THEN "PROCESSING" ELSE "NONE"]
    /\ gpHash = [r \in PromptIds |-> IF r = 1 THEN sha256(1) ELSE sha256(0)]
    /\ aiQueue = {[mid |-> 1, gp |-> 1, made |-> 0]}
    /\ nextMid = 2
    /\ gpAttempts = [r \in PromptIds |-> 0]
    /\ pgQueue = {}
    /\ pgJobs = {}
    /\ agJobs = {}
    /\ pageStatus = [p \in PageIds |-> "NONE"]
    /\ pagePublished = [p \in PageIds |-> FALSE]
    /\ pageTags = [p \in PageIds |-> {}]
    /\ pageOf = [p \in PageIds |-> 0]
    /\ trQueue = {}
    /\ adminLeft = MaxAdmin
    /\ cgFails = [r \in PromptIds |-> 0]
    /\ exhausted = [r \in PromptIds |-> FALSE]
    /\ gpCat = [r \in PromptIds |-> 1]
    /\ pageCat = [p \in PageIds |-> 1]
    /\ InitStagesIdle
    /\ lastOp = <<"init", 0>>
    /\ calls = {}

NextAssetGenerator ==
    \/ \E m \in aiQueue : AgStart(m)
    \/ \E j \in agJobs : AgIncrement(j)
    \/ \E j \in agJobs : AgGenerate(j)
    \/ \E j \in agJobs : AgUploadCreate(j)
    \/ \E j \in agJobs : AgEnrich(j)
    \/ \E j \in agJobs : AgMarkDone(j)
    \/ \E j \in agJobs : AgCatch(j)

\* one prompt-generate message is waiting for an active category
InitGen ==
    /\ InitEmptyStore
    /\ generationEnabled = TRUE
    /\ catState = [c \in Cats |-> "ACTIVE"]
    /\ pgQueue = {[mid |-> 1, cat |-> 1, count |-> MaxItems, made |-> 0]}
    /\ aiQueue = {}
    /\ nextMid = 2
    /\ adminLeft = 0

NextGen ==
    \/ NextSynth
    \/ NextAssetGenerator

SpecGen == InitGen /\ [][NextGen]_vars

NextAdmin ==
    \/ NextAssetGenerator
    \/ \E r \in PromptIds : retryGenerationPrompt(r)
    \/ \E r \in PromptIds : disableGenerationPrompt(r)
    \/ \E r \in PromptIds : generateNowPrompt(r)

SpecAdmin == InitAdmin /\ [][NextAdmin]_vars

NextNoRetry ==
    \/ NextAssetGenerator
    \/ \E r \in PromptIds : disableGenerationPrompt(r)
    \/ \E r \in PromptIds : generateNowPrompt(r)

SpecNoRetry == InitAdmin /\ [][NextNoRetry]_vars

\* the values AI_MAX_ATTEMPTS is configured with
ConfiguredAttempts ==
    1..MaxConfigured

\* A GenerationPrompt row as the Prompt Synthesizer leaves it, its ai-generate
\* message waiting, under any configured AI_MAX_ATTEMPTS; no administrator
\* acts.
InitRetry ==
    /\ generationEnabled = TRUE
    /\ catState = [c \in Cats |-> "ACTIVE"]
    /\ gpStatus = [r \in PromptIds |-> IF r = 1 THEN "PROCESSING" ELSE "NONE"]
    /\ gpHash = [r \in PromptIds |-> IF r = 1 THEN sha256(1) ELSE sha256(0)]
    /\ aiQueue = {[mid |-> 1, gp |-> 1, made |-> 0]}
    /\ nextMid = 2
    /\ gpAttempts = [r \in PromptIds |-> 0]
    /\ pgQueue = {}
    /\ pgJobs = {}
    /\ agJobs = {}
    /\ pageStatus = [p \in PageIds |-> "NONE"]
    /\ pagePublished = [p \in PageIds |-> FALSE]
    /\ pageTags = [p \in PageIds |-> {}]
    /\ pageOf = [p \in PageIds |-> 0]
    /\ trQueue = {}
    /\ adminLeft = 0
    /\ cgFails = [r \in PromptIds |-> 0]
    /\ exhausted = [r \in PromptIds |-> FALSE]
    /\ gpCat = [r \in PromptIds |-> 1]
    /\ pageCat = [p \in PageIds |-> 1]
    /\ translationEnabled = TRUE
    /\ translationBatchSize = 1
    /\ categoryRows = {}
    /\ trRows = [p \in PageIds |-> [l \in Locales |-> NoRow]]
    /\ locJobs = {}
    /\ linkQueue = {}
    /\ locDone = NoDelivery
    /\ InitTailBase
    /\ maxAttempts \in ConfiguredAttempts
    /\ locWorkers = LocWorkers
    /\ lastOp = <<"init", 0>>
    /\ calls = {}

\* the worker takes every waiting message and finishes every job it started
SpecRetry == InitRetry /\ [][NextAssetGenerator]_vars /\ WF_vars(NextAssetGenerator)

\* job.data.locales when the producer gives it: locales in any order, none
\* twice
LocaleSeqs ==
    {ls \in SeqsUpTo(Locales, NumLocales) :
        Len(ls) > 0 /\ \A a, b \in 1..Len(ls) : a # b => ls[a] # ls[b]}

\* The Asset Generator has finished request 1 and stored page 1 as DRAFT, the
\* first page of its category; one translate-page message for it is waiting,
\* and a second one for a page that is gone since it was enqueued.
InitLoc ==
    /\ generationEnabled = TRUE
    /\ catState = [c \in Cats |-> "ACTIVE"]
    /\ gpStatus = [r \in PromptIds |-> IF r = 1 THEN "DONE" ELSE "NONE"]
    /\ gpHash = [r \in PromptIds |-> IF r = 1 THEN sha256(1) ELSE sha256(0)]
    /\ gpAttempts = [r \in PromptIds |-> IF r = 1 THEN 1 ELSE 0]
    /\ gpCat = [r \in PromptIds |-> 1]
    /\ pgQueue = {}
    /\ pgJobs = {}
    /\ aiQueue = {}
    /\ agJobs = {}
    /\ adminLeft = 0
    /\ cgFails = [r \in PromptIds |-> 0]
    /\ exhausted = [r \in PromptIds |-> FALSE]
    /\ pageStatus = [p \in PageIds |-> IF p = 1 THEN "DRAFT" ELSE "NONE"]
    /\ pagePublished = [p \in PageIds |-> FALSE]
    /\ pageTags = [p \in PageIds |-> IF p = 1 THEN {"t1"} ELSE {}]
    /\ pageOf = [p \in PageIds |-> IF p = 1 THEN 1 ELSE 0]
    /\ pageCat = [p \in PageIds |-> 1]
    /\ translationEnabled \in BOOLEAN
    /\ translationBatchSize \in 1..NumLocales
    /\ categoryRows = {}
    /\ trRows = [p \in PageIds |-> [l \in Locales |-> NoRow]]
    /\ \E ls \in LocaleSeqs :
          trQueue = {[mid |-> 1, page |-> 1, made |-> 0, locales |-> ls],
                     [mid |-> 2, page |-> MaxPages, made |-> 0, locales |-> SupportedSeq]}
    /\ nextMid = 3
    /\ locJobs = {}
    /\ linkQueue = {}
    /\ locDone = NoDelivery
    /\ InitTailIdle
    /\ lastOp = <<"init", 0>>
    /\ calls = {}

NextLoc ==
    \/ \E m \in trQueue : LocStart(m)
    \/ \E j \in locJobs : LocCategory(j)
    \/ \E j \in locJobs : LocTranslate(j)
    \/ \E j \in locJobs : LocPersist(j)
    \/ \E j \in locJobs : LocPublish(j)
    \/ \E j \in locJobs : LocEnqueueLink(j)

SpecLoc == InitLoc /\ [][NextLoc]_vars

\* Two worker processes consume translate-page. The Asset Generator has stored
\* pages 1 and 2 as DRAFT, both of category 1, which has no Category row yet;
\* one translate-page message waits for each.
InitRace ==
    /\ generationEnabled = TRUE
    /\ catState = [c \in Cats |-> "ACTIVE"]
    /\ gpStatus = [r \in PromptIds |-> IF r \in {1, 2} THEN "DONE" ELSE "NONE"]
    /\ gpHash = [r \in PromptIds |-> IF r \in {1, 2} THEN sha256(r) ELSE sha256(0)]
    /\ gpAttempts = [r \in PromptIds |-> IF r \in {1, 2} THEN 1 ELSE 0]
    /\ gpCat = [r \in PromptIds |-> 1]
    /\ pgQueue = {}
    /\ pgJobs = {}
    /\ aiQueue = {}
    /\ agJobs = {}
    /\ adminLeft = 0
    /\ cgFails = [r \in PromptIds |-> 0]
    /\ exhausted = [r \in PromptIds |-> FALSE]
    /\ pageStatus = [p \in PageIds |-> IF p \in {1, 2} THEN "DRAFT" ELSE "NONE"]
    /\ pagePublished = [p \in PageIds |-> FALSE]
    /\ pageTags = [p \in PageIds |-> IF p \in {1, 2} THEN {"t1"} ELSE {}]
    /\ pageOf = [p \in PageIds |-> IF p \in {1, 2} THEN p ELSE 0]
    /\ pageCat = [p \in PageIds |-> 1]
    /\ translationEnabled = TRUE
    /\ translationBatchSize = 1
    /\ categoryRows = {}
    /\ trRows = [p \in PageIds |-> [l \in Locales |-> NoRow]]
    /\ trQueue = {[mid |-> 1, page |-> 1, made |-> 0, locales |-> <<DEFAULT_LOCALE>>],
                  [mid |-> 2, page |-> 2, made |-> 0, locales |-> <<DEFAULT_LOCALE>>]}
    /\ nextMid = 3
    /\ locJobs = {}
    /\ linkQueue = {}
    /\ locDone = NoDelivery
    /\ InitTailBase
    /\ maxAttempts = MAX_ATTEMPTS
    /\ locWorkers = 2
    /\ lastOp = <<"init", 0>>
    /\ calls = {}

SpecRace == InitRace /\ [][NextLoc]_vars

\* a batch message asks for at most this many rows
BatchLimits == {1, 2}

\* the values of seoTitle and seoDescription of the stored rows: null, "" and
\* a text
SeoVals == {-1, 0, 1}

\* the descriptions of the stored rows: null, "", and texts around
\* DESCRIPTION_MIN_LENGTH
DescVals ==
    {-1, 0, DESCRIPTION_MIN_LENGTH - 1, DESCRIPTION_MIN_LENGTH, DESCRIPTION_MIN_LENGTH + 1}

\* Page 1 is PUBLISHED and page 2 a DRAFT; the translation of page 1 in the
\* default locale holds any values, the other translations are missing or
\* short. A single-mode message for that translation, one for a translation of
\* page 2 and a batch message are waiting.
InitThin ==
    /\ generationEnabled = TRUE
    /\ catState = [c \in Cats |-> "ACTIVE"]
    /\ gpStatus = [r \in PromptIds |-> "NONE"]
    /\ gpHash = [r \in PromptIds |-> sha256(0)]
    /\ gpAttempts = [r \in PromptIds |-> 0]
    /\ gpCat = [r \in PromptIds |-> 1]
    /\ pgQueue = {}
    /\ pgJobs = {}
    /\ aiQueue = {}
    /\ agJobs = {}
    /\ adminLeft = 0
    /\ cgFails = [r \in PromptIds |-> 0]
    /\ exhausted = [r \in PromptIds |-> FALSE]
    /\ pageStatus = [p \in PageIds |-> IF p = 1 THEN "PUBLISHED"
                                       ELSE IF p = 2 THEN "DRAFT" ELSE "NONE"]
    /\ pagePublished = [p \in PageIds |-> p = 1]
    /\ pageTags = [p \in PageIds |-> {}]
    /\ pageOf = [p \in PageIds |-> 0]
    /\ pageCat = [p \in PageIds |-> 1]
    /\ translationEnabled = TRUE
    /\ translationBatchSize = 1
    /\ categoryRows = {1}
    /\ \E st \in SeoVals, sd \in SeoVals, d \in DescVals, other \in {NoRow, TranslatorRow} :
          trRows = [p \in PageIds |-> [l \in Locales |->
                      IF p = 1 /\ l = DEFAULT_LOCALE
                      THEN [seoTitle |-> st, seoDescription |-> sd, description |-> d]
                      ELSE IF p = 1 THEN other
                      ELSE NoRow]]
    /\ locJobs = {}
    /\ trQueue = {}
    /\ linkQueue = {}
    /\ locDone = NoDelivery
    /\ linkRows = {}
    /\ linkJobs = {}
    /\ linkPrev = NoRun
    /\ related = NoRead
    /\ \E lim \in BatchLimits :
          thinQueue = {[mid |-> 1, mode |-> "single", page |-> 1, locale |-> DEFAULT_LOCALE,
                        limit |-> 0],
                       [mid |-> 2, mode |-> "single", page |-> 2, locale |-> DEFAULT_LOCALE,
                        limit |-> 0],
                       [mid |-> 3, mode |-> "batch", page |-> 0, locale |-> 0, limit |-> lim]}
    /\ nextMid = 4
    /\ thinJobs = {}
    /\ thinVerdict = NoVerdict
    /\ thinDone = NoBatch
    /\ catQuota = [c \in Cats |-> DefaultDailyQuota]
    /\ multNum = MultDen
    /\ maxAttempts = MAX_ATTEMPTS
    /\ locWorkers = LocWorkers
    /\ globalCap = Infinity
    /\ priorToday = 0
    /\ InitGovIdle
    /\ lastOp = <<"init", 0>>
    /\ calls = {}

NextThin ==
    \/ \E m \in thinQueue : ThinStart(m)
    \/ \E j \in thinJobs : ThinScan(j)
    \/ \E j \in thinJobs : ThinFix(j)

SpecThin == InitThin /\ [][NextThin]_vars

\* The translation of page 1 in the default locale is thin; two single-mode
\* messages for it are waiting.
InitSingle ==
    /\ generationEnabled = TRUE
    /\ catState = [c \in Cats |-> "ACTIVE"]
    /\ gpStatus = [r \in PromptIds |-> "NONE"]
    /\ gpHash = [r \in PromptIds |-> sha256(0)]
    /\ gpAttempts = [r \in PromptIds |-> 0]
    /\ gpCat = [r \in PromptIds |-> 1]
    /\ pgQueue = {}
    /\ pgJobs = {}
    /\ aiQueue = {}
    /\ agJobs = {}
    /\ adminLeft = 0
    /\ cgFails = [r \in PromptIds |-> 0]
    /\ exhausted = [r \in PromptIds |-> FALSE]
    /\ pageStatus = [p \in PageIds |-> IF p = 1 THEN "PUBLISHED"
                                       ELSE IF p = 2 THEN "DRAFT" ELSE "NONE"]
    /\ pagePublished = [p \in PageIds |-> p = 1]
    /\ pageTags = [p \in PageIds |-> {}]
    /\ pageOf = [p \in PageIds |-> 0]
    /\ pageCat = [p \in PageIds |-> 1]
    /\ translationEnabled = TRUE
    /\ translationBatchSize = 1
    /\ categoryRows = {1}
    /\ \E st \in SeoVals, sd \in SeoVals, d \in DescVals :
          LET tr == [seoTitle |-> st, seoDescription |-> sd, description |-> d]
          IN /\ isThin(tr)
             /\ trRows = [p \in PageIds |-> [l \in Locales |->
                            IF p = 1 /\ l = DEFAULT_LOCALE THEN tr ELSE NoRow]]
    /\ locJobs = {}
    /\ trQueue = {}
    /\ linkQueue = {}
    /\ locDone = NoDelivery
    /\ linkRows = {}
    /\ linkJobs = {}
    /\ linkPrev = NoRun
    /\ related = NoRead
    /\ thinQueue = {[mid |-> 1, mode |-> "single", page |-> 1, locale |-> DEFAULT_LOCALE,
                      limit |-> 0],
                     [mid |-> 2, mode |-> "single", page |-> 1, locale |-> DEFAULT_LOCALE,
                      limit |-> 0]}
    /\ nextMid = 3
    /\ thinJobs = {}
    /\ thinVerdict = NoVerdict
    /\ thinDone = NoBatch
    /\ catQuota = [c \in Cats |-> DefaultDailyQuota]
    /\ multNum = MultDen
    /\ maxAttempts = MAX_ATTEMPTS
    /\ locWorkers = LocWorkers
    /\ globalCap = Infinity
    /\ priorToday = 0
    /\ InitGovIdle
    /\ lastOp = <<"init", 0>>
    /\ calls = {}

NextSingle ==
    \/ \E m \in thinQueue : ThinStart(m)
    \/ \E j \in thinJobs : ThinFix(j)

SpecSingle == InitSingle /\ [][NextSingle]_vars

\* dailyQuota as the administrative form and the seeds store it (1..1000)
QuotaVals == {1, 10, 45}

\* DAILY_QUOTA_MULTIPLIER: 0.5, 1 and 1.5
MultNums == {1, 2, 3}

\* GLOBAL_DAILY_CAP: unset, or a positive number
CapVals == {Infinity, 1, 50}

\* GenerationPrompt rows created earlier today
PriorVals == {0, 45, 50}

\* generate-daily is about to run: categories, quotas and the environment are
\* any of the values above
InitGov ==
    /\ generationEnabled \in BOOLEAN
    /\ catState \in [Cats -> {"ACTIVE", "INACTIVE"}]
    /\ gpStatus = [r \in PromptIds |-> "NONE"]
    /\ gpHash = [r \in PromptIds |-> sha256(0)]
    /\ gpAttempts = [r \in PromptIds |-> 0]
    /\ gpCat = [r \in PromptIds |-> 1]
    /\ pgQueue = {}
    /\ pgJobs = {}
    /\ aiQueue = {}
    /\ agJobs = {}
    /\ adminLeft = 0
    /\ nextMid = 1
    /\ cgFails = [r \in PromptIds |-> 0]
    /\ exhausted = [r \in PromptIds |-> FALSE]
    /\ pageStatus = [p \in PageIds |-> "NONE"]
    /\ pagePublished = [p \in PageIds |-> FALSE]
    /\ pageTags = [p \in PageIds |-> {}]
    /\ pageOf = [p \in PageIds |-> 0]
    /\ pageCat = [p \in PageIds |-> 1]
    /\ trQueue = {}
    /\ translationEnabled = TRUE
    /\ translationBatchSize = 1
    /\ categoryRows = {}
    /\ trRows = [p \in PageIds |-> [l \in Locales |-> NoRow]]
    /\ locJobs = {}
    /\ linkQueue = {}
    /\ locDone = NoDelivery
    /\ linkRows = {}
    /\ linkJobs = {}
    /\ linkPrev = NoRun
    /\ related = NoRead
    /\ thinQueue = {}
    /\ thinJobs = {}
    /\ thinVerdict = NoVerdict
    /\ thinDone = NoBatch
    /\ catQuota \in [Cats -> QuotaVals]
    /\ multNum \in MultNums
    /\ maxAttempts = MAX_ATTEMPTS
    /\ locWorkers = LocWorkers
    /\ globalCap \in CapVals
    /\ priorToday \in PriorVals
    /\ InitGovIdle
    /\ lastOp = <<"init", 0>>
    /\ calls = {}

NextGov ==
    \/ GovStart
    \/ GovPlan
    \/ GovAddBulk

SpecGov == InitGov /\ [][NextGov]_vars

\* Page 1 was published; some of the pages after it are PUBLISHED too, all in
\* the category of page 1, the first of them with both tags and the others
\* with one. Every page has its translation in the default locale, pages 2
\* and 3 in every locale. Two link-boost messages for page 1 are waiting.
InitLink ==
    /\ generationEnabled = TRUE
    /\ catState = [c \in Cats |-> "ACTIVE"]
    /\ gpStatus = [r \in PromptIds |-> "NONE"]
    /\ gpHash = [r \in PromptIds |-> sha256(0)]
    /\ gpAttempts = [r \in PromptIds |-> 0]
    /\ gpCat = [r \in PromptIds |-> 1]
    /\ pgQueue = {}
    /\ pgJobs = {}
    /\ aiQueue = {}
    /\ agJobs = {}
    /\ adminLeft = 0
    /\ cgFails = [r \in PromptIds |-> 0]
    /\ exhausted = [r \in PromptIds |-> FALSE]
    /\ \E n \in 0..(MaxPages - 1) :
          /\ pageStatus = [p \in PageIds |-> IF p <= n + 1 THEN "PUBLISHED" ELSE "NONE"]
          /\ pagePublished = [p \in PageIds |-> p <= n + 1]
          /\ \E k \in 0..n, src \in {{}, {"t1", "t2"}} :
                pageTags = [p \in PageIds |-> IF p = 1 THEN src
                                              ELSE IF p <= k + 1 THEN {"t1", "t2"}
                                              ELSE IF p <= n + 1 THEN {"t1"} ELSE {}]
          /\ trRows = [p \in PageIds |-> [l \in Locales |->
                         IF p <= n + 1 /\ (l = DEFAULT_LOCALE \/ p <= 3)
                         THEN TranslatorRow ELSE NoRow]]
    /\ pageOf = [p \in PageIds |-> 0]
    /\ pageCat = [p \in PageIds |-> 1]
    /\ trQueue = {}
    /\ translationEnabled = TRUE
    /\ translationBatchSize = 1
    /\ categoryRows = {1}
    /\ locJobs = {}
    /\ locDone = NoDelivery
    /\ linkQueue = {[mid |-> 1, page |-> 1, made |-> 0], [mid |-> 2, page |-> 1, made |-> 0]}
    /\ nextMid = 3
    /\ linkRows = {}
    /\ linkJobs = {}
    /\ linkPrev = NoRun
    /\ related = NoRead
    /\ thinQueue = {}
    /\ thinJobs = {}
    /\ thinVerdict = NoVerdict
    /\ thinDone = NoBatch
    /\ catQuota = [c \in Cats |-> DefaultDailyQuota]
    /\ multNum = MultDen
    /\ maxAttempts = MAX_ATTEMPTS
    /\ locWorkers = LocWorkers
    /\ globalCap = Infinity
    /\ priorToday = 0
    /\ InitGovIdle
    /\ lastOp = <<"init", 0>>
    /\ calls = {}

NextLink ==
    \/ \E m \in linkQueue : LinkStart(m)
    \/ \E j \in linkJobs : LinkLocale(j)

SpecLink == InitLink /\ [][NextLink]_vars

\* the pages next to which the presentation shows related pages
ReadPages == 1..4

\* the tag lists of the pages next to page 1
NeighbourTagSets == {{}, {"t2"}, {"t1", "t2"}}

\* Pages 1..3 are PUBLISHED and page 4 is still DRAFT; each has a translation
\* in every locale, but page 3 only in the default one. Page 1 has tag t2 or
\* no tag, the others any of the tag lists and either category. No PageLink
\* row is stored; two link-boost messages for page 1 are waiting, and the
\* administrator can run reassignCategories once.
InitRelated ==
    /\ generationEnabled = TRUE
    /\ catState = [c \in Cats |-> "ACTIVE"]
    /\ gpStatus = [r \in PromptIds |-> "NONE"]
    /\ gpHash = [r \in PromptIds |-> sha256(0)]
    /\ gpAttempts = [r \in PromptIds |-> 0]
    /\ gpCat = [r \in PromptIds |-> 1]
    /\ pgQueue = {}
    /\ pgJobs = {}
    /\ aiQueue = {}
    /\ agJobs = {}
    /\ adminLeft = MaxAdmin
    /\ cgFails = [r \in PromptIds |-> 0]
    /\ exhausted = [r \in PromptIds |-> FALSE]
    /\ pageStatus = [p \in PageIds |-> IF p \in ReadPages \ {4} THEN "PUBLISHED"
                                        ELSE IF p = 4 THEN "DRAFT" ELSE "NONE"]
    /\ pagePublished = [p \in PageIds |-> p \in ReadPages \ {4}]
    /\ \E src \in {{}, {"t2"}}, ts \in [ReadPages \ {1} -> NeighbourTagSets] :
          pageTags = [p \in PageIds |-> IF p = 1 THEN src
                                        ELSE IF p \in ReadPages THEN ts[p] ELSE {}]
    /\ \E cs \in [ReadPages \ {1} -> Cats] :
          pageCat = [p \in PageIds |-> IF p \in ReadPages \ {1} THEN cs[p] ELSE 1]
    /\ trRows = [p \in PageIds |-> [l \in Locales |->
                   IF p \in ReadPages /\ (p # 3 \/ l = DEFAULT_LOCALE)
                   THEN TranslatorRow ELSE NoRow]]
    /\ pageOf = [p \in PageIds |-> 0]
    /\ trQueue = {}
    /\ translationEnabled = TRUE
    /\ translationBatchSize = 1
    /\ categoryRows = Cats
    /\ locJobs = {}
    /\ locDone = NoDelivery
    /\ linkQueue = {[mid |-> i, page |-> 1, made |-> 0] : i \in 1..2}
    /\ nextMid = 3
    /\ linkRows = {}
    /\ linkJobs = {}
    /\ linkPrev = NoRun
    /\ related = NoRead
    /\ thinQueue = {}
    /\ thinJobs = {}
    /\ thinVerdict = NoVerdict
    /\ thinDone = NoBatch
    /\ catQuota = [c \in Cats |-> DefaultDailyQuota]
    /\ multNum = MultDen
    /\ maxAttempts = MAX_ATTEMPTS
    /\ locWorkers = LocWorkers
    /\ globalCap = Infinity
    /\ priorToday = 0
    /\ InitGovIdle
    /\ lastOp = <<"init", 0>>
    /\ calls = {}

\* the presentation reads page 1 in the default locale at any time
NextRelated ==
    \/ NextLink
    \/ getRelatedPages(1, DEFAULT_LOCALE)

SpecRelated == InitRelated /\ [][NextRelated]_vars

\* the categories resolveCategory finds for the pages
Resolved ==
    [PageIds -> Cats]

\* the Link Indexer runs, and reassignCategories between or during its runs
NextReindex ==
    \/ NextLink
    \/ \E rc \in {f \in Resolved : \A p \in PageIds \ ReadPages : f[p] = 1} :
          reassignCategories(rc)

SpecReindex == InitRelated /\ [][NextReindex]_vars

\* A day starts: no row was created today and the queues are empty (one
\* message id was used on an earlier day); every quota has its smallest value,
\* the multiplier is 1 and the cap is finite. generate-daily runs any number
\* of times while the Prompt Synthesizer processes the jobs.
InitDaily ==
    /\ generationEnabled = TRUE
    /\ \E st \in {"ACTIVE", "INACTIVE"} :
          catState = [c \in Cats |-> IF c = 1 THEN "ACTIVE" ELSE st]
    /\ gpStatus = [r \in PromptIds |-> "NONE"]
    /\ gpHash = [r \in PromptIds |-> sha256(0)]
    /\ gpAttempts = [r \in PromptIds |-> 0]
    /\ gpCat = [r \in PromptIds |-> 1]
    /\ pgQueue = {}
    /\ pgJobs = {}
    /\ aiQueue = {}
    /\ agJobs = {}
    /\ adminLeft = 0
    /\ nextMid = 2
    /\ cgFails = [r \in PromptIds |-> 0]
    /\ exhausted = [r \in PromptIds |-> FALSE]
    /\ pageStatus = [p \in PageIds |-> "NONE"]
    /\ pagePublished = [p \in PageIds |-> FALSE]
    /\ pageTags = [p \in PageIds |-> {}]
    /\ pageOf = [p \in PageIds |-> 0]
    /\ pageCat = [p \in PageIds |-> 1]
    /\ trQueue = {}
    /\ translationEnabled = TRUE
    /\ translationBatchSize = 1
    /\ categoryRows = {}
    /\ trRows = [p \in PageIds |-> [l \in Locales |-> NoRow]]
    /\ locJobs = {}
    /\ linkQueue = {}
    /\ locDone = NoDelivery
    /\ linkRows = {}
    /\ linkJobs = {}
    /\ linkPrev = NoRun
    /\ related = NoRead
    /\ thinQueue = {}
    /\ thinJobs = {}
    /\ thinVerdict = NoVerdict
    /\ thinDone = NoBatch
    /\ catQuota = [c \in Cats |-> CHOOSE q \in QuotaVals : \A x \in QuotaVals : q <= x]
    /\ multNum = MultDen
    /\ maxAttempts = MAX_ATTEMPTS
    /\ locWorkers = LocWorkers
    /\ globalCap \in {c \in CapVals : IsFinite(c) /\ c < MaxPrompts}
    /\ priorToday = 0
    /\ InitGovIdle
    /\ lastOp = <<"init", 0>>
    /\ calls = {}

NextDaily ==
    \/ NextGov
    \/ GovInvoke
    \/ NextSynth

SpecDaily == InitDaily /\ [][NextDaily]_vars

\* Pages 1 and 2 are PUBLISHED and share tags, page 3 is DRAFT and the last
\* page id names no page. The PageLink row from page 1 to page 2 was written
\* when the two pages shared every tag. Four link-boost messages are
\* waiting: two for page 1, one for the DRAFT page, one for the missing page.
InitRelink ==
    /\ generationEnabled = TRUE
    /\ catState = [c \in Cats |-> "ACTIVE"]
    /\ gpStatus = [r \in PromptIds |-> "NONE"]
    /\ gpHash = [r \in PromptIds |-> sha256(0)]
    /\ gpAttempts = [r \in PromptIds |-> 0]
    /\ gpCat = [r \in PromptIds |-> 1]
    /\ pgQueue = {}
    /\ pgJobs = {}
    /\ aiQueue = {}
    /\ agJobs = {}
    /\ adminLeft = 0
    /\ cgFails = [r \in PromptIds |-> 0]
    /\ exhausted = [r \in PromptIds |-> FALSE]
    /\ pageStatus = [p \in PageIds |-> IF p <= 2 THEN "PUBLISHED"
                                      ELSE IF p = 3 THEN "DRAFT" ELSE "NONE"]
    /\ pagePublished = [p \in PageIds |-> p <= 2]
    /\ \E src \in TaggerTagSets, ts \in TaggerTagSets :
          pageTags = [p \in PageIds |-> IF p = 1 THEN src
                                        ELSE IF p = 2 THEN ts
                                        ELSE IF p = 3 THEN {"t1"} ELSE {}]
    /\ trRows = [p \in PageIds |-> [l \in Locales |->
                   IF p <= 3 THEN TranslatorRow ELSE NoRow]]
    /\ pageOf = [p \in PageIds |-> 0]
    /\ pageCat = [p \in PageIds |-> 1]
    /\ trQueue = {}
    /\ translationEnabled = TRUE
    /\ translationBatchSize = 1
    /\ categoryRows = {1}
    /\ locJobs = {}
    /\ locDone = NoDelivery
    /\ linkQueue = {[mid |-> 1, page |-> 1, made |-> 0],
                     [mid |-> 2, page |-> 1, made |-> 0],
                     [mid |-> 3, page |-> 3, made |-> 0],
                     [mid |-> 4, page |-> MaxPages, made |-> 0]}
    /\ nextMid = 5
    /\ linkRows = {[from |-> 1, to |-> 2, type |-> "TAG_RELATED",
                     locale |-> DEFAULT_LOCALE, weight |-> Cardinality(Tags)]}
    /\ linkJobs = {}
    /\ linkPrev = NoRun
    /\ related = NoRead
    /\ thinQueue = {}
    /\ thinJobs = {}
    /\ thinVerdict = NoVerdict
    /\ thinDone = NoBatch
    /\ catQuota = [c \in Cats |-> DefaultDailyQuota]
    /\ multNum = MultDen
    /\ maxAttempts = MAX_ATTEMPTS
    /\ locWorkers = LocWorkers
    /\ globalCap = Infinity
    /\ priorToday = 0
    /\ InitGovIdle
    /\ lastOp = <<"init", 0>>
    /\ calls = {}

SpecRelink == InitRelink /\ [][NextLink]_vars

\* The Prompt Synthesizer has processed prompt-generate message 1: row 1 is
\* PROCESSING and its ai-generate message 2 is waiting for its last delivery
\* (the two before it threw at the read of the row, before any write). The
\* Asset Generator, the Localization Stage, the Link Indexer and the
\* requeue-translate-drafts script run on what it produces.
InitPublish ==
    /\ generationEnabled = TRUE
    /\ catState = [c \in Cats |-> "ACTIVE"]
    /\ gpStatus = [r \in PromptIds |-> IF r = 1 THEN "PROCESSING" ELSE "NONE"]
    /\ gpHash = [r \in PromptIds |-> IF r = 1 THEN sha256(1) ELSE sha256(0)]
    /\ aiQueue = {[mid |-> 2, gp |-> 1, made |-> QUEUE_ATTEMPTS - 1]}
    /\ nextMid = 3
    /\ gpAttempts = [r \in PromptIds |-> 0]
    /\ pgQueue = {}
    /\ pgJobs = {}
    /\ agJobs = {}
    /\ pageStatus = [p \in PageIds |-> "NONE"]
    /\ pagePublished = [p \in PageIds |-> FALSE]
    /\ pageTags = [p \in PageIds |-> {}]
    /\ pageOf = [p \in PageIds |-> 0]
    /\ trQueue = {}
    /\ adminLeft = 0
    /\ cgFails = [r \in PromptIds |-> 0]
    /\ exhausted = [r \in PromptIds |-> FALSE]
    /\ gpCat = [r \in PromptIds |-> 1]
    /\ pageCat = [p \in PageIds |-> 1]
    /\ InitStagesIdle
    /\ lastOp = <<"init", 0>>
    /\ calls = {}

NextPublish ==
    \/ NextAssetGenerator
    \/ NextLoc
    \/ RequeueTranslateDrafts
    \/ NextLink

SpecPublish == InitPublish /\ [][NextPublish]_vars

\* The whole pipeline: generate-daily runs against an empty store, and every
\* stage and the administrator act on what the stages before them produce.
Init == InitGov

Next ==
    \/ NextGov
    \/ GovInvoke
    \/ NextSynth
    \/ NextAssetGenerator
    \/ \E r \in PromptIds : retryGenerationPrompt(r)
    \/ \E r \in PromptIds : disableGenerationPrompt(r)
    \/ \E r \in PromptIds : generateNowPrompt(r)
    \/ NextLoc
    \/ RequeueTranslateDrafts
    \/ NextLink
    \/ \E p \in PageIds, l \in Locales : getRelatedPages(p, l)
    \/ \E rc \in Resolved : reassignCategories(rc)
    \/ NextThin

Spec == Init /\ [][Next]_vars

\* -------------------------------------------------------------------------
\* Properties
\* -------------------------------------------------------------------------
\* the last step called the Content Generator for row r
CallsGenerator(r) ==
    "ContentGenerator" \in calls /\ lastOp[2] = r

\* C1: in every reachable state of concurrent Prompt Synthesizer jobs there
\* is at most one GenerationPrompt row per content hash of promptText.
C1_OneRowPerHash ==
    \A r1 \in PromptIds, r2 \in PromptIds :
        (gpStatus[r1] # "NONE" /\ gpStatus[r2] # "NONE" /\ gpHash[r1] = gpHash[r2]) => r1 = r2

\* two jobs held the same new promptText at the same time: both passed
\* findUnique, one inserted, the insert of the other was rejected
C1_Witness ==
    /\ lastOp[1] = "pg_unique_violation"
    /\ Cardinality(ExistingByHash(sha256(lastOp[2]))) = 1

\* C2: once a row was set SKIPPED after MAX_ATTEMPTS consecutive Content
\* Generator failures, no later step (a redelivery or the delivery of a newly
\* enqueued message) calls the Content Generator for it.
C2_NoGeneratorCallAfterSkipped ==
    [][\A r \in PromptIds : exhausted[r] => ~CallsGenerator(r)']_vars

\* C4: a second run of the Link Indexer for a page, with no change of pages,
\* tags, categories or translations since the first, ends with exactly the
\* PageLink rows of that page (keys and weights) that the first run ended with.
C4_SecondRunSameRows ==
    [][(lastOp'[1] = "link_done" /\ linkPrev.page = lastOp'[2])
          => {x \in linkRows' : x.from = linkPrev.page} = linkPrev.rows]_vars

\* C5: isThin of a row is true exactly when seoTitle is null or empty, or
\* seoDescription is null or empty, or description is null, empty or shorter
\* than 120 characters; it is false only when the three fields are present and
\* description has at least 120 characters.
C5_IsThinExactly ==
    thinVerdict.row # NoRow =>
        LET r == thinVerdict.row
        IN /\ thinVerdict.thin <=>
                 \/ r.seoTitle \in {-1, 0}
                 \/ r.seoDescription \in {-1, 0}
                 \/ r.description \in {-1, 0}
                 \/ r.description < 120
           /\ ~thinVerdict.thin =>
                 /\ r.seoTitle >= 1
                 /\ r.seoDescription >= 1
                 /\ r.description >= 120

\* a row with the three fields present and a description of exactly 120
\* characters was read and found not thin
C5_Witness ==
    /\ lastOp[1] = "thin_not_thin"
    /\ thinVerdict.row.description = 120
    /\ ~thinVerdict.thin

\* sum of the counts of the first n entries
RECURSIVE SumCounts(_, _)
SumCounts(entries, n) ==
    IF n = 0 THEN 0 ELSE entries[n].count + SumCounts(entries, n - 1)

\* sum of ceil(dailyQuota * multiplier) over the first n categories of cats
RECURSIVE SumCeil(_, _)
SumCeil(cats, n) ==
    IF n = 0 THEN 0 ELSE CeilQuota(catQuota[cats[n]]) + SumCeil(cats, n - 1)

\* C6: in a run with a finite cap the active categories are visited in
\* creation order; category i gets count_i = min(ceil(dailyQuota_i *
\* multiplier), remainingCap - counts given out before); the loop stops only
\* when nothing remains; every count is at least 1, a category gets at most one
\* job, and the counts sum to min(remainingCap, sum of ceil(dailyQuota *
\* multiplier)). Scenario A: quotas 10 and 45, multiplier 1, cap 50, no row
\* today: 10, then 40.
C6_CountsFollowCap ==
    (IsFinite(globalCap) /\ govEntries # <<>>) =>
        LET cats == ActiveCategories
            n == Len(govEntries)
        IN /\ n <= Len(cats)
           /\ \A i \in 1..n :
                 /\ govEntries[i].cat = cats[i]
                 /\ govEntries[i].count =
                       Min(CeilQuota(catQuota[cats[i]]), govRemaining - SumCounts(govEntries, i - 1))
                 /\ govEntries[i].count >= 1
           /\ n < Len(cats) => SumCounts(govEntries, n) = govRemaining
           /\ SumCounts(govEntries, n) = Min(govRemaining, SumCeil(cats, Len(cats)))
           /\ (/\ Len(cats) >= 2 /\ cats[1] = 1 /\ cats[2] = 2
               /\ catQuota[1] = 10 /\ catQuota[2] = 45
               /\ multNum = MultDen /\ globalCap = 50 /\ govRemaining = 50)
                 => /\ n = 2
                    /\ govEntries[1].count = 10
                    /\ govEntries[2].count = 40

\* Scenario A was run and its two jobs were enqueued
C6_Witness ==
    /\ lastOp[1] = "gov_enqueued"
    /\ catQuota[1] = 10 /\ catQuota[2] = 45
    /\ multNum = MultDen /\ globalCap = 50 /\ priorToday = 0
    /\ Len(govEntries) = 2
    /\ govEntries[1] = [cat |-> 1, count |-> 10]
    /\ govEntries[2] = [cat |-> 2, count |-> 40]
    /\ \E m \in pgQueue : m.cat = 2 /\ m.count = 40

\* C7: a delivery that starts on a row whose status is DONE or SKIPPED ends at
\* once: no job is left in progress, no collaborator is called, no row of the
\* datastore changes and nothing is enqueued.
C7_TerminalDeliveryIsNoop ==
    [][\A m \in aiQueue :
          (m \notin aiQueue' /\ generationEnabled /\ gpStatus[m.gp] \in {"DONE", "SKIPPED"})
          => /\ aiQueue' = aiQueue \ {m}
             /\ agJobs' = agJobs
             /\ calls' = {}
             /\ UNCHANGED <<gpStatus, gpHash, gpAttempts, pageStatus, pagePublished,
                            pageTags, pageOf, trQueue, pgQueue, nextMid>>]_vars

\* a message for a SKIPPED row was delivered and dropped
C7_Witness ==
    /\ lastOp[1] = "ag_skip_terminal"
    /\ gpStatus[lastOp[2]] = "SKIPPED"
    /\ gpAttempts[lastOp[2]] > 0

\* C3: whenever no Localization delivery for a page is in progress, the page
\* is PUBLISHED if and only if a translation row exists for (page, default
\* locale); a persisted default-locale row never coexists with a DRAFT page
\* once the delivery that wrote it has ended.
C3_PublishedIffDefaultRow ==
    \A p \in PageIds :
        (pageStatus[p] # "NONE" /\ \A j \in locJobs : j.page # p)
            => (pageStatus[p] = "PUBLISHED" <=> trRows[p][DEFAULT_LOCALE] # NoRow)

\* C8: when the Translator call of a batch throws, every locale of that batch
\* is recorded as failed; the later batches are still processed, so that at
\* the end of the delivery every requested locale has a result; and when the
\* default locale was saved by such a delivery the page is published by it.
C8_BatchThrowIsContained ==
    /\ \A j \in locJobs : \A b \in j.threw :
          BatchLocales(j.locales, translationBatchSize, b) \subseteq j.failSet
    /\ locDone.page # 0 =>
          /\ \A b \in locDone.threw :
                BatchLocales(locDone.locales, translationBatchSize, b) \subseteq locDone.failSet
          /\ locDone.okSet \cup locDone.failSet = Range(locDone.locales)
          /\ locDone.okSet \cap locDone.failSet = {}
          /\ (locDone.threw # {} /\ DEFAULT_LOCALE \in locDone.okSet)
                => locDone.published /\ pageStatus[locDone.page] = "PUBLISHED"

\* the first batch threw, the default locale was in a later batch and was
\* saved, and the delivery published the page
C8_Witness ==
    /\ locDone.page # 0
    /\ 1 \in locDone.threw
    /\ DEFAULT_LOCALE \notin BatchLocales(locDone.locales, translationBatchSize, 1)
    /\ DEFAULT_LOCALE \in locDone.okSet
    /\ locDone.published
    /\ pageStatus[locDone.page] = "PUBLISHED"

\* C9: once the status of a row is DONE or SKIPPED, no step of the Prompt
\* Synthesizer or of the Asset Generator changes it.
C9_TerminalStatusStays ==
    [][\A r \in PromptIds :
          gpStatus[r] \in {"DONE", "SKIPPED"} => gpStatus'[r] = gpStatus[r]]_vars

\* C10 as stated: no operation lowers attempts.
C10_AttemptsNeverDecrease ==
    [][\A r \in PromptIds : gpAttempts'[r] >= gpAttempts[r]]_vars

\* C10 amended: attempts is lowered by the administrative retry only, which
\* sets it to 0; deliveries, disable and generate-now never lower it.
C10_AttemptsDecreaseOnlyByRetry ==
    [][\A r \in PromptIds :
          \/ gpAttempts'[r] >= gpAttempts[r]
          \/ (lastOp' = <<"retry", r>> /\ gpAttempts'[r] = 0)]_vars

\* generate-now acted on a row that had been delivered before
C10_Witness ==
    /\ lastOp[1] = "generate_now"
    /\ gpAttempts[lastOp[2]] > 0


\* C15: a Prompt Synthesizer delivery for a category that is missing or
\* inactive ends normally: the message leaves the queue and is not delivered
\* again, no job starts, the Content Idea Generator is not called, no
\* GenerationPrompt row changes and nothing is enqueued.
C15_MissingOrInactiveIsNoop ==
    [][\A m \in pgQueue :
          (m \notin pgQueue' /\ catState[m.cat] \in {"NONE", "INACTIVE"})
          => /\ pgQueue' = pgQueue \ {m}
             /\ pgJobs' = pgJobs
             /\ calls' = {}
             /\ UNCHANGED <<gpStatus, gpHash, gpAttempts, aiQueue, nextMid>>]_vars

\* C16: a job that stands at the existence check or at the insert of an item
\* whose hash is already stored goes on with the next item: the job is not
\* failed, its message is not delivered again and nothing is enqueued.
C16_DuplicateIsSkipped ==
    [][\A j \in pgJobs :
          (/\ j.pc \in {"find", "create"}
           /\ j.items # <<>>
           /\ ExistingByHash(sha256(Head(j.items))) # {}
           /\ j \notin pgJobs')
          => /\ \E k \in pgJobs' : k.mid = j.mid /\ k.items = Tail(j.items)
             /\ UNCHANGED <<pgQueue, aiQueue, gpStatus, gpHash>>]_vars

\* C17: when the inline enrichment of an Asset Generator delivery fails, at
\* the Content Tagger call or at any step after it, the delivery goes on to
\* mark the row DONE, the page is DRAFT and carries no tag, and no
\* translate-page message is enqueued.
C17_EnrichmentFailureLeavesUntagged ==
    [][\A j \in agJobs :
          (/\ j.pc = "enrich"
           /\ j \notin agJobs'
           /\ lastOp'[1] \in {"ag_tagger_failed", "ag_translate_enqueue_failed"})
          => /\ [j EXCEPT !.pc = "done"] \in agJobs'
             /\ pageStatus'[j.page] = "DRAFT"
             /\ ~pagePublished'[j.page]
             /\ pageTags'[j.page] = {}
             /\ trQueue' = trQueue]_vars

\* C18: a failed Asset Generator delivery ends in exactly one of two ways:
\* with attempts >= MAX_ATTEMPTS the row is set SKIPPED and the message is not
\* delivered again; with attempts < MAX_ATTEMPTS the row is set FAILED and the
\* error is thrown to the queue, which delivers the message again. Without
\* administrative actions a FAILED row therefore has attempts < MAX_ATTEMPTS.
C18_FailedOrSkipped ==
    /\ [](\A r \in PromptIds : gpStatus[r] = "FAILED" => gpAttempts[r] < MAX_ATTEMPTS)
    /\ [][\A j \in agJobs :
             (j.pc = "catch" /\ j \notin agJobs')
             => \/ /\ gpAttempts[j.gp] >= MAX_ATTEMPTS
                   /\ gpStatus'[j.gp] = "SKIPPED"
                   /\ aiQueue' = aiQueue
                \/ /\ gpAttempts[j.gp] < MAX_ATTEMPTS
                   /\ gpStatus'[j.gp] = "FAILED"
                   /\ aiQueue' = aiQueue \cup
                         {[mid |-> j.mid, gp |-> j.gp, made |-> j.made + 1]}
                   /\ aiQueue' # aiQueue]_vars

\* a row that failed, was delivered again and failed at MAX_ATTEMPTS: SKIPPED
C18_Witness ==
    /\ lastOp[1] = "ag_skipped"
    /\ gpStatus[lastOp[2]] = "SKIPPED"
    /\ gpAttempts[lastOp[2]] = MAX_ATTEMPTS
    /\ \A m \in aiQueue : m.gp # lastOp[2]

\* the delivery that ended last threw to the queue
LocRaised ==
    lastOp[1] \in {"loc_page_not_found", "loc_category_conflict", "loc_all_failed"}

\* the delivery that ended last returned
LocReturned ==
    lastOp[1] \in {"loc_disabled", "loc_done_draft", "loc_link_enqueued",
                   "loc_link_enqueue_failed"}

\* the locales that the delivery that ended last recorded as saved
LocSaved ==
    IF lastOp[1] \in {"loc_all_failed", "loc_done_draft", "loc_link_enqueued",
                      "loc_link_enqueue_failed"}
    THEN locDone.okSet
    ELSE {}

C19_LinkEnqueueFailureIsNotFatal ==
    [][\A j \in locJobs :
          (j.pc = "link" /\ j \notin locJobs' /\ linkQueue' = linkQueue)
          => /\ trQueue' = trQueue
             /\ \A k \in locJobs' : k.mid # j.mid
             /\ pageStatus'[j.page] = "PUBLISHED"
             /\ pagePublished'[j.page]
             /\ locDone'.page = j.page
             /\ locDone'.published]_vars

\* a delivery published the page, failed to enqueue link-boost and ended
C19_Witness ==
    /\ lastOp[1] = "loc_link_enqueue_failed"
    /\ pageStatus[lastOp[2]] = "PUBLISHED"
    /\ pagePublished[lastOp[2]]
    /\ \A m \in linkQueue : m.page # lastOp[2]

\* C11: a page is created DRAFT with published = false, and a page that is
\* PUBLISHED with published = true stays so in every step of every stage; a
\* translate-page delivery for a published page in which the default locale
\* fails leaves both fields as they are.
C11_PublicationIsOneWay ==
    [][\A p \in PageIds :
          /\ (pageStatus[p] = "NONE" /\ pageStatus'[p] # "NONE")
             => (pageStatus'[p] = "DRAFT" /\ ~pagePublished'[p])
          /\ (pageStatus[p] = "PUBLISHED" /\ pagePublished[p])
             => (pageStatus'[p] = "PUBLISHED" /\ pagePublished'[p])]_vars

\* a second translate-page delivery for a published page ended with the
\* default locale failed, and the page is still published
C11_Witness ==
    /\ locDone.page # 0
    /\ DEFAULT_LOCALE \in locDone.failSet
    /\ ~locDone.published
    /\ pageStatus[locDone.page] = "PUBLISHED"
    /\ pagePublished[locDone.page]

\* two PageLink rows with the same (fromPageId, toPageId, type, locale)
SameKey(x, y) ==
    /\ x.from = y.from
    /\ x.to = y.to
    /\ x.type = y.type
    /\ x.locale = y.locale

\* C12: in every state there is at most one PageLink row per (fromPageId,
\* toPageId, type, locale), and no step removes a key: a write for a key that
\* has a row replaces the weight of that row.
C12_OneRowPerKey ==
    /\ [](\A x, y \in linkRows : SameKey(x, y) => x = y)
    /\ [][\A x \in linkRows : \E y \in linkRows' : SameKey(x, y)]_vars

\* both deliveries for page 1 are done and the row to page 2, stored with
\* another weight before, carries the weight of the one tag the pages share
C12_Witness ==
    /\ lastOp = <<"link_done", 1>>
    /\ \A m \in linkQueue : m.page # 1
    /\ pageTags[2] = {"t1"}
    /\ [from |-> 1, to |-> 2, type |-> "TAG_RELATED", locale |-> DEFAULT_LOCALE,
        weight |-> 1] \in linkRows

\* C20: a link-boost delivery for a page that does not exist or is not
\* PUBLISHED ends as completed without a job and without a write to PageLink;
\* no row starts at a page that is not PUBLISHED.
C20_NotPublishedIsNoop ==
    /\ [](\A x \in linkRows : pageStatus[x.from] = "PUBLISHED")
    /\ [][\A m \in linkQueue :
             (m \notin linkQueue' /\ pageStatus[m.page] # "PUBLISHED")
             => /\ linkQueue' = linkQueue \ {m}
                /\ linkJobs' = linkJobs
                /\ linkRows' = linkRows]_vars

\* the messages for the DRAFT page and for the missing page were delivered
C20_Witness ==
    /\ lastOp[1] \in {"link_not_published", "link_page_not_found"}
    /\ \A m \in linkQueue : pageStatus[m.page] = "PUBLISHED"
    /\ \A x \in linkRows : x.from = 1

\* C14: with a finite GLOBAL_DAILY_CAP, for any number of generate-daily runs
\* interleaved in any way with the Prompt Synthesizer, the number of
\* GenerationPrompt rows created today is at most the cap.
C14_CreatedTodayWithinCap ==
    IsFinite(globalCap) => TodayCount <= globalCap

\* the four conditions of a row that is not thin, written out
RowComplete(tr) ==
    /\ tr.seoTitle >= 1
    /\ tr.seoDescription >= 1
    /\ tr.description >= DESCRIPTION_MIN_LENGTH

\* C21: a single-mode delivery for a translation that is not thin ends at
\* once: no job starts, generateThinFixMetadata is not called and no row is
\* written. A second single-mode delivery after a fix whose result is not thin
\* is such a delivery.
C21_SingleNotThinIsNoop ==
    [][\A m \in thinQueue :
          (/\ m.mode = "single"
           /\ m \notin thinQueue'
           /\ trRows[m.page][m.locale] # NoRow
           /\ RowComplete(trRows[m.page][m.locale]))
          => /\ thinQueue' = thinQueue \ {m}
             /\ thinJobs' = thinJobs
             /\ trRows' = trRows
             /\ calls' = {}]_vars

\* the row was thin, the first delivery fixed it, and the second delivery
\* found it not thin and ended
C21_Witness ==
    /\ lastOp = <<"thin_not_thin", 1>>
    /\ thinQueue = {}
    /\ thinJobs = {}
    /\ RowComplete(trRows[1][DEFAULT_LOCALE])
    /\ thinVerdict = [row |-> trRows[1][DEFAULT_LOCALE], thin |-> FALSE]

C23_GenerateNowKeepsRow ==
    [][\A r \in PromptIds :
          (adminLeft' # adminLeft /\ lastOp' = <<"generate_now", r>>)
          => /\ \E m \in aiQueue' : /\ m \notin aiQueue
                                    /\ m.gp = r
                                    /\ aiQueue' = aiQueue \cup {m}
             /\ gpAttempts'[r] = gpAttempts[r]
             /\ gpStatus'[r] = gpStatus[r]]_vars

\* C24: under every configured AI_MAX_ATTEMPTS and the queue's three
\* deliveries per ai-generate message, request 1 ends SKIPPED unless the
\* Content Generator succeeded for it on some delivery.
C24_FailingRequestIsSkipped ==
    <>(gpStatus[1] = "SKIPPED" \/ lastOp = <<"ag_generated", 1>>)

\* C25: a translate-page delivery that found no Category row for the slug of
\* its page goes on to translation: creating the row does not raise.
C25_CategoryCreateNeverRaises ==
    [][\A j \in locJobs :
          (j.pc = "createCategory" /\ j \notin locJobs')
             => \E k \in locJobs' : k.mid = j.mid /\ k.pc = "translate"]_vars

\* C26: what the presentation returns from the precomputed rows of a Link
\* Indexer run is a result the dynamic query gives on the same data.
C26_PrecomputedEqualsDynamic ==
    related.cached
       => related.ids \in DynamicRelated(related.page, related.locale, pageCat[related.page],
                                         pageTags[related.page], RELATED_LIMIT)

\* C27: when a Link Indexer run for a page has ended, the PageLink rows of
\* the page are the rows that run upserted, at most CAT_LIMIT or TAG_LIMIT of
\* each type and locale: no row of an earlier run is left.
C27_RowsAreThoseOfLatestRun ==
    lastOp[1] = "link_done"
       => /\ {x \in linkRows : x.from = linkPrev.page} = linkPrev.wrote
          /\ \A l \in Locales :
                /\ Cardinality({x \in linkRows : x.from = linkPrev.page /\ x.locale = l
                                                 /\ x.type = "TAG_RELATED"}) <= TAG_LIMIT
                /\ Cardinality({x \in linkRows : x.from = linkPrev.page /\ x.locale = l
                                                 /\ x.type = "CATEGORY_RELATED"}) <= CAT_LIMIT

\* the rows the Link Indexer runs that ended or are under way have upserted
RowsWritten ==
    linkPrev.wrote \cup UNION {j.wrote : j \in linkJobs}

\* C28: every row a Link Indexer run wrote goes from the indexed page to
\* another page that is PUBLISHED, has a translation in the locale of the row
\* and shares a tag with the source (TAG_RELATED) or has its category
\* (CATEGORY_RELATED). No page, tag or translation changes during the runs.
C28_RowsPointToEligiblePages ==
    \A x \in RowsWritten :
        /\ x.to # x.from
        /\ pageStatus[x.to] = "PUBLISHED"
        /\ trRows[x.to][x.locale] # NoRow
        /\ x.type = "TAG_RELATED" => pageTags[x.to] \cap pageTags[x.from] # {}
        /\ x.type = "CATEGORY_RELATED" => pageCat[x.to] = pageCat[x.from]

\* a run for page 1 ended that wrote a row of each type, while a page of the
\* category is DRAFT and a page that shares a tag has no translation in the
\* second locale
C28_Witness ==
    /\ lastOp = <<"link_done", 1>>
    /\ \E x, y \in linkPrev.wrote : x.type = "TAG_RELATED" /\ y.type = "CATEGORY_RELATED"
    /\ pageStatus[4] = "DRAFT" /\ pageCat[4] = pageCat[1]
    /\ pageTags[3] \cap pageTags[1] # {} /\ trRows[3][2] = NoRow
    /\ \A x \in linkPrev.wrote : x.to # 4 /\ ~(x.to = 3 /\ x.locale = 2)

\* the TAG_RELATED rows of locale l that the last ended run upserted
TagRowsOfRun(l) ==
    {x \in linkPrev.wrote : x.type = "TAG_RELATED" /\ x.locale = l}

\* C29: of the rows a Link Indexer run upserted, a TAG_RELATED row weighs the
\* number of tags its two pages share, which is at least 1; the TAG_RELATED
\* rows of a locale are TAG_LIMIT of the candidates, or all of them when
\* there are fewer, and no candidate left out shares more tags than one that
\* was kept; a CATEGORY_RELATED row weighs 1.
C29_WeightsAndCut ==
    /\ \A x \in linkPrev.wrote :
          /\ x.type = "TAG_RELATED"
                => /\ x.weight = Cardinality(pageTags[x.from] \cap pageTags[x.to])
                   /\ x.weight >= 1
          /\ x.type = "CATEGORY_RELATED" => x.weight = 1
    /\ linkPrev # NoRun
          => \A l \in Locales :
                LET from == linkPrev.page
                    cand == {c \in PageIds : /\ c # from
                                             /\ pageStatus[c] = "PUBLISHED"
                                             /\ pageTags[c] \cap pageTags[from] # {}
                                             /\ trRows[c][l] # NoRow}
                    kept == {x.to : x \in TagRowsOfRun(l)}
                IN /\ kept \subseteq cand
                   /\ Cardinality(kept) = Min(TAG_LIMIT, Cardinality(cand))
                   /\ \A a \in kept, b \in cand \ kept :
                         Cardinality(pageTags[from] \cap pageTags[a])
                            >= Cardinality(pageTags[from] \cap pageTags[b])

\* a run ended for a page with 13 candidates, some sharing two tags and some
\* one: 12 rows were kept, among them every candidate that shares two tags
C29_Witness ==
    /\ lastOp = <<"link_done", 1>>
    /\ Cardinality(TagEligible(1, pageTags[1], DEFAULT_LOCALE)) = TAG_LIMIT + 1
    /\ Cardinality(TagRowsOfRun(DEFAULT_LOCALE)) = TAG_LIMIT
    /\ \E x, y \in TagRowsOfRun(DEFAULT_LOCALE) : x.weight = 2 /\ y.weight = 1
    /\ \A c \in TagEligible(1, pageTags[1], DEFAULT_LOCALE) :
          SharedTags(c, pageTags[1]) = 2 => c \in {x.to : x \in TagRowsOfRun(DEFAULT_LOCALE)}
    /\ \E y \in linkPrev.wrote : y.type = "CATEGORY_RELATED"

\* C30: for every GenerationPrompt row the Prompt Synthesizer created as
\* PENDING, an ai-generate message is enqueued at some later time, also when
\* the job that created it failed and the queue delivered its message again.
C30_CreatedRowGetsMessage ==
    \A r \in PromptIds :
        (gpStatus[r] = "PENDING") ~> (\E m \in aiQueue : m.gp = r)

\* C31: a GenerationPrompt row that is DONE has a page whose tags are
\* attached and for which a translate-page message was enqueued (nothing
\* consumes translate-page here, so an enqueued message is still waiting).
C31_DoneImpliesEnriched ==
    \A r \in PromptIds :
        gpStatus[r] = "DONE"
           => \E p \in PageIds : /\ pageOf[p] = r
                                 /\ pageTags[p] # {}
                                 /\ \E m \in trQueue : m.page = p

\* C32: a step of the Localization Stage that writes the status or the
\* published flag of a page, or enqueues a link-boost message, belongs to a
\* delivery for that page whose results hold the default locale as saved; a
\* delivery without it writes neither field and enqueues nothing.
C32_NoDefaultLocaleNoPublish ==
    /\ [][\A p \in PageIds :
             (pageStatus'[p] # pageStatus[p] \/ pagePublished'[p] # pagePublished[p])
                => \E j \in locJobs : j.page = p /\ DEFAULT_LOCALE \in j.okSet]_vars
    /\ [][\A m \in linkQueue' \ linkQueue :
             \E j \in locJobs : j.page = m.page /\ DEFAULT_LOCALE \in j.okSet]_vars
    /\ [](locDone.page # 0 /\ DEFAULT_LOCALE \notin locDone.okSet => ~locDone.published)

\* a delivery that was not asked for the default locale saved another locale
\* and ended: the page is DRAFT and no link-boost message is waiting
C32_Witness ==
    /\ lastOp = <<"loc_done_draft", 1>>
    /\ DEFAULT_LOCALE \notin locDone.okSet \cup locDone.failSet
    /\ locDone.okSet # {}
    /\ pageStatus[1] = "DRAFT"
    /\ ~pagePublished[1]
    /\ linkQueue = {}

\* C33: when fixTranslation has stored the result of the Content Describer,
\* the stored row has a seoTitle, a seoDescription and a description of
\* DESCRIPTION_MIN_LENGTH characters or more.
C33_FixedRowIsNotThin ==
    [][\A j \in thinJobs :
          (j.pc = "fix" /\ j \notin thinJobs' /\ lastOp'[1] = "thin_fixed")
             => RowComplete(trRows'[j.rows[j.idx].page][j.rows[j.idx].locale])]_vars

\* -------------------------------------------------------------------------
\* Remediator batch runs on a schedule
\* -------------------------------------------------------------------------
\* a row that is not thin
CompleteRow ==
    [seoTitle |-> 1, seoDescription |-> 1, description |-> DESCRIPTION_MIN_LENGTH]

\* the rows the backlog starts from: none, a complete row, a row whose fields
\* are all present with a description one short of DESCRIPTION_MIN_LENGTH, and
\* a row without seoTitle
BacklogRows ==
    {NoRow, CompleteRow,
     [seoTitle |-> 1, seoDescription |-> 1, description |-> DESCRIPTION_MIN_LENGTH - 1],
     [seoTitle |-> -1, seoDescription |-> 1, description |-> DESCRIPTION_MIN_LENGTH]}

\* Pages 1 and 2 are PUBLISHED; the rows of pages 1 and 2 in the default locale
\* are of any kind of BacklogRows, the row of page 1 in the other locale is
\* missing or complete. No message is waiting.
InitBacklog ==
    /\ generationEnabled = TRUE
    /\ catState = [c \in Cats |-> "ACTIVE"]
    /\ gpStatus = [r \in PromptIds |-> "NONE"]
    /\ gpHash = [r \in PromptIds |-> sha256(0)]
    /\ gpAttempts = [r \in PromptIds |-> 0]
    /\ gpCat = [r \in PromptIds |-> 1]
    /\ pgQueue = {}
    /\ pgJobs = {}
    /\ aiQueue = {}
    /\ agJobs = {}
    /\ adminLeft = 0
    /\ cgFails = [r \in PromptIds |-> 0]
    /\ exhausted = [r \in PromptIds |-> FALSE]
    /\ pageStatus = [p \in PageIds |-> IF p <= 2 THEN "PUBLISHED" ELSE "NONE"]
    /\ pagePublished = [p \in PageIds |-> p <= 2]
    /\ pageTags = [p \in PageIds |-> {}]
    /\ pageOf = [p \in PageIds |-> 0]
    /\ pageCat = [p \in PageIds |-> 1]
    /\ translationEnabled = TRUE
    /\ translationBatchSize = 1
    /\ categoryRows = {1}
    /\ \E a \in BacklogRows, b \in {NoRow, CompleteRow}, c \in BacklogRows :
          trRows = [p \in PageIds |-> [l \in Locales |->
                      IF p = 1 /\ l = DEFAULT_LOCALE THEN a
                      ELSE IF p = 1 /\ l = 2 THEN b
                      ELSE IF p = 2 /\ l = DEFAULT_LOCALE THEN c
                      ELSE NoRow]]
    /\ locJobs = {}
    /\ trQueue = {}
    /\ linkQueue = {}
    /\ locDone = NoDelivery
    /\ linkRows = {}
    /\ linkJobs = {}
    /\ linkPrev = NoRun
    /\ related = NoRead
    /\ thinQueue = {}
    /\ nextMid = 1
    /\ thinJobs = {}
    /\ thinVerdict = NoVerdict
    /\ thinDone = NoBatch
    /\ catQuota = [c \in Cats |-> DefaultDailyQuota]
    /\ multNum = MultDen
    /\ maxAttempts = MAX_ATTEMPTS
    /\ locWorkers = LocWorkers
    /\ globalCap = Infinity
    /\ priorToday = 0
    /\ InitGovIdle
    /\ lastOp = <<"init", 0>>
    /\ calls = {}

\* The schedule adds the batch message { mode: "batch", limit } once the run
\* before it has ended; the repeated job keeps its id.
ThinBatchRun(lim) ==
    /\ thinQueue = {}
    /\ thinJobs = {}
    /\ thinQueue' = {[mid |-> nextMid, mode |-> "batch", page |-> 0, locale |-> 0,
                      limit |-> lim]}
    /\ lastOp' = <<"thin_batch_scheduled", lim>>
    /\ calls' = {}
    /\ UNCHANGED <<genVars, cgFails, exhausted, gpCat, pageCat>>
    /\ UNCHANGED <<translationEnabled, translationBatchSize, categoryRows, trRows,
                   locJobs, linkQueue, locDone, linkVars, govVars>>
    /\ UNCHANGED <<thinJobs, thinVerdict, thinDone>>

NextBacklog ==
    \/ \E lim \in BatchLimits : ThinBatchRun(lim)
    \/ \E m \in thinQueue : ThinStart(m)
    \/ \E j \in thinJobs : ThinScan(j)
    \/ \E j \in thinJobs : ThinFix(j)

\* the schedule goes on and the worker takes every delivery to its end
SpecBacklog == InitBacklog /\ [][NextBacklog]_vars /\ WF_vars(NextBacklog)

\* the thin rows of PUBLISHED pages
ThinPublished ==
    {k \in PageIds \X Locales : /\ pageStatus[k[1]] = "PUBLISHED"
                                /\ trRows[k[1]][k[2]] # NoRow
                                /\ ~RowComplete(trRows[k[1]][k[2]])}

\* C34: with batch runs repeated for ever and no row added, the number of thin
\* rows of PUBLISHED pages reaches zero, unless the Describer failed or returned
\* a thin result (an empty seoTitle is stored by no other step here).
C34_BacklogReachesZero ==
    <>(\/ ThinPublished = {}
       \/ lastOp[1] = "thin_fix_failed"
       \/ \E p \in PageIds, l \in Locales : /\ trRows[p][l] # NoRow
                                            /\ trRows[p][l].seoTitle = 0)

\* C35: a disable holds against a delivery in flight: in the step that follows
\* the disable of a row (one of the later states the claim speaks of) the row
\* is still SKIPPED and no Content Generator call for it is made, unless that
\* step is an administrative retry or generate-now of the row.
C35_DisableHoldsAgainstInFlight ==
    [][\A r \in PromptIds :
          lastOp = <<"disable", r>>
             => \/ gpStatus'[r] = "SKIPPED" /\ ~CallsGenerator(r)'
                \/ lastOp' \in {<<"retry", r>>, <<"generate_now", r>>}]_vars

\* C36: without administrative actions no two pages are created for the same
\* GenerationPrompt row, whatever is redelivered and whichever step after
\* coloringPage.create fails.
C36_AtMostOnePagePerRequest ==
    \A p \in PageIds, q \in PageIds :
        (pageOf[p] # 0 /\ pageOf[p] = pageOf[q]) => p = q

\* the link-boost messages a step adds
NewLinkMessages ==
    linkQueue' \ linkQueue

\* the translate-page deliveries that end in a step at the enqueue of the
\* link-boost message, that is after they wrote PUBLISHED
EndsPublishing ==
    {j \in locJobs : j.pc = "link" /\ j \notin locJobs'}

\* a link-boost message is added only by a delivery that wrote PUBLISHED before,
\* for its own page, which is PUBLISHED with published = true when the message
\* is added
EnqueuedAfterPublish ==
    \A m \in NewLinkMessages :
        /\ \E j \in EndsPublishing : j.page = m.page
        /\ pageStatus[m.page] = "PUBLISHED"
        /\ pagePublished[m.page]

\* the Link Indexer delivery that takes a message reads a PUBLISHED page
DeliveryReadsPublished ==
    \A m \in linkQueue \ linkQueue' :
        /\ pageStatus[m.page] = "PUBLISHED"
        /\ lastOp'[1] = "link_started"

\* C37 as stated: a link-boost message is enqueued only after the PUBLISHED
\* write completed, every delivery that publishes enqueues exactly one, and no
\* Link Indexer delivery for a message of the pipeline reads a page that is
\* not PUBLISHED.
C37_ExactlyOneMessagePerPublish ==
    [][/\ EnqueuedAfterPublish
       /\ EndsPublishing # {} => Cardinality(NewLinkMessages) = 1
       /\ DeliveryReadsPublished]_vars

\* C37 amended: as above, but a delivery that publishes enqueues at most one
\* message: exactly one when linkBoostQueue.add succeeds and none when it
\* throws.
C37_AtMostOneMessagePerPublish ==
    [][/\ EnqueuedAfterPublish
       /\ EndsPublishing # {} =>
             \/ Cardinality(NewLinkMessages) = 1 /\ lastOp'[1] = "loc_link_enqueued"
             \/ NewLinkMessages = {} /\ lastOp'[1] = "loc_link_enqueue_failed"
       /\ DeliveryReadsPublished]_vars

\* a Link Indexer delivery has started for the page that the last
\* translate-page delivery published
C37_Witness ==
    /\ lastOp[1] = "link_started"
    /\ locDone.page = lastOp[2]
    /\ locDone.published
    /\ pageStatus[lastOp[2]] = "PUBLISHED"

\* the Localization Stage and the Link Indexer on the messages of InitLoc
NextLocLink ==
    \/ NextLoc
    \/ NextLink

SpecLocLink == InitLoc /\ [][NextLocLink]_vars

\* -------------------------------------------------------------------------
\* The pipeline when nothing fails
\* -------------------------------------------------------------------------
\* the steps in which a collaborator, a datastore write or a queue operation
\* fails (an exception, or a Translator answer that lacks a requested locale)
FailureOps ==
    {"pg_generator_failed", "pg_unique_violation", "pg_enqueue_failed",
     "ag_generator_failed", "ag_upload_failed", "ag_tagger_failed",
     "ag_translate_enqueue_failed", "ag_done_failed",
     "loc_category_conflict", "loc_translator_threw", "loc_missing_in_batch",
     "loc_translation_upsert_failed", "loc_later_upsert_failed",
     "loc_link_enqueue_failed"}

\* the step taken is not one of the failures, and the Translator answer a
\* delivery holds after it has every locale of the batch
Succeeds ==
    /\ lastOp'[1] \notin FailureOps
    /\ \A j \in locJobs' :
          j.pc = "persist" =>
             BatchLocales(j.locales, translationBatchSize, j.idx) \subseteq j.returned

\* The four stages with every call succeeding; the outer catch of the Asset
\* Generator is never entered.
NextNoFailure ==
    \/ \E m \in pgQueue : PgStart(m) /\ Succeeds
    \/ \E j \in pgJobs : PgFind(j) /\ Succeeds
    \/ \E j \in pgJobs : PgCreate(j) /\ Succeeds
    \/ \E j \in pgJobs : PgEnqueue(j) /\ Succeeds
    \/ \E j \in pgJobs : PgUpdate(j) /\ Succeeds
    \/ \E m \in aiQueue : AgStart(m) /\ Succeeds
    \/ \E j \in agJobs : AgIncrement(j) /\ Succeeds
    \/ \E j \in agJobs : AgGenerate(j) /\ Succeeds
    \/ \E j \in agJobs : AgUploadCreate(j) /\ Succeeds
    \/ \E j \in agJobs : AgEnrich(j) /\ Succeeds
    \/ \E j \in agJobs : AgMarkDone(j) /\ Succeeds
    \/ \E m \in trQueue : LocStart(m) /\ Succeeds
    \/ \E j \in locJobs : LocCategory(j) /\ Succeeds
    \/ \E j \in locJobs : LocTranslate(j) /\ Succeeds
    \/ \E j \in locJobs : LocPersist(j) /\ Succeeds
    \/ \E j \in locJobs : LocPublish(j) /\ Succeeds
    \/ \E j \in locJobs : LocEnqueueLink(j) /\ Succeeds
    \/ \E m \in linkQueue : LinkStart(m) /\ Succeeds
    \/ \E j \in linkJobs : LinkLocale(j) /\ Succeeds

\* the store is empty and one prompt-generate message asking for one prompt
\* is waiting for an active category
InitOneRequest ==
    /\ InitEmptyStore
    /\ generationEnabled = TRUE
    /\ catState = [c \in Cats |-> "ACTIVE"]
    /\ pgQueue = {[mid |-> 1, cat |-> 1, count |-> 1, made |-> 0]}
    /\ aiQueue = {}
    /\ nextMid = 2
    /\ adminLeft = 0

\* every queue is served and every delivery goes on to its end
SpecNoFailure ==
    /\ InitOneRequest
    /\ [][NextNoFailure]_vars
    /\ WF_vars(NextSynth /\ Succeeds)
    /\ WF_vars(NextAssetGenerator /\ Succeeds)
    /\ WF_vars(NextLoc /\ Succeeds)
    /\ WF_vars(NextLink /\ Succeeds)

\* C38: when nothing fails, the switches are on and the queues are served,
\* every GenerationPrompt row the Prompt Synthesizer created is DONE at some
\* time, a page of it is PUBLISHED at some time, and a Link Indexer delivery
\* for that page runs to its end.
C38_EndToEndProgress ==
    \A r \in PromptIds :
        <>(gpStatus[r] # "NONE") =>
            /\ <>(gpStatus[r] = "DONE")
            /\ <>(\E p \in PageIds : /\ pageOf[p] = r
                                      /\ pageStatus[p] = "PUBLISHED"
                                      /\ pagePublished[p])
            /\ <>(\E p \in PageIds : pageOf[p] = r /\ lastOp = <<"link_done", p>>)

\* the Link Indexer has ended its delivery for the PUBLISHED page of a row
\* that is DONE
C38_Witness ==
    \E p \in PageIds :
        /\ lastOp = <<"link_done", p>>
        /\ pageOf[p] # 0
        /\ gpStatus[pageOf[p]] = "DONE"
        /\ pageStatus[p] = "PUBLISHED"
        /\ linkQueue = {}

\* -------------------------------------------------------------------------
\* The Remediator and a later delivery of the Localization Stage
\* -------------------------------------------------------------------------
\* Page 1 was translated and published by a first translate-page delivery:
\* its rows hold what the Translator returned. A second translate-page message
\* for it, added by requeue-translate-drafts while the page was DRAFT, is
\* still waiting, and so is a batch message of the Remediator.
InitOverwrite ==
    /\ generationEnabled = TRUE
    /\ catState = [c \in Cats |-> "ACTIVE"]
    /\ gpStatus = [r \in PromptIds |-> IF r = 1 THEN "DONE" ELSE "NONE"]
    /\ gpHash = [r \in PromptIds |-> IF r = 1 THEN sha256(1) ELSE sha256(0)]
    /\ gpAttempts = [r \in PromptIds |-> IF r = 1 THEN 1 ELSE 0]
    /\ gpCat = [r \in PromptIds |-> 1]
    /\ pgQueue = {}
    /\ pgJobs = {}
    /\ aiQueue = {}
    /\ agJobs = {}
    /\ adminLeft = 0
    /\ cgFails = [r \in PromptIds |-> 0]
    /\ exhausted = [r \in PromptIds |-> FALSE]
    /\ pageStatus = [p \in PageIds |-> IF p = 1 THEN "PUBLISHED" ELSE "NONE"]
    /\ pagePublished = [p \in PageIds |-> p = 1]
    /\ pageTags = [p \in PageIds |-> IF p = 1 THEN {"t1"} ELSE {}]
    /\ pageOf = [p \in PageIds |-> IF p = 1 THEN 1 ELSE 0]
    /\ pageCat = [p \in PageIds |-> 1]
    /\ translationEnabled = TRUE
    /\ translationBatchSize \in 1..NumLocales
    /\ categoryRows = {1}
    /\ trRows = [p \in PageIds |-> [l \in Locales |->
                    IF p = 1 THEN TranslatorRow ELSE NoRow]]
    /\ locJobs = {}
    /\ trQueue = {[mid |-> 1, page |-> 1, made |-> QUEUE_ATTEMPTS - 1,
                   locales |-> SupportedSeq]}
    /\ linkQueue = {}
    /\ locDone = NoDelivery
    /\ linkRows = {}
    /\ linkJobs = {}
    /\ linkPrev = NoRun
    /\ related = NoRead
    /\ \E lim \in BatchLimits :
          thinQueue = {[mid |-> 2, mode |-> "batch", page |-> 0, locale |-> 0, limit |-> lim]}
    /\ nextMid = 3
    /\ thinJobs = {}
    /\ thinVerdict = NoVerdict
    /\ thinDone = NoBatch
    /\ catQuota = [c \in Cats |-> DefaultDailyQuota]
    /\ multNum = MultDen
    /\ maxAttempts = MAX_ATTEMPTS
    /\ locWorkers = LocWorkers
    /\ globalCap = Infinity
    /\ priorToday = 0
    /\ InitGovIdle
    /\ lastOp = <<"init", 0>>
    /\ calls = {}

NextOverwrite ==
    \/ NextLoc
    \/ NextThin

SpecOverwrite == InitOverwrite /\ [][NextOverwrite]_vars

\* C39: a row the Remediator fixed to non-thin stays non-thin, whatever the
\* Localization Stage delivers afterwards. (Every row starts as the Translator
\* wrote it, which is thin, so a complete row is one the Remediator fixed.)
C39_FixedRowStaysNonThin ==
    [][\A p \in PageIds, l \in Locales :
          (trRows[p][l] # NoRow /\ RowComplete(trRows[p][l]))
             => RowComplete(trRows'[p][l])]_vars

\* -------------------------------------------------------------------------
\* A second page with the tag of a page that is already indexed
\* -------------------------------------------------------------------------
\* Page 2 is PUBLISHED, translated into every locale and tagged t1; its Link
\* Indexer delivery ran when no other page was PUBLISHED and wrote no row.
\* Page 1 is a DRAFT with the same tag whose translate-page message is waiting.
InitSecondPage ==
    /\ generationEnabled = TRUE
    /\ catState = [c \in Cats |-> "ACTIVE"]
    /\ gpStatus = [r \in PromptIds |-> IF r <= 2 THEN "DONE" ELSE "NONE"]
    /\ gpHash = [r \in PromptIds |-> IF r <= 2 THEN sha256(r) ELSE sha256(0)]
    /\ gpAttempts = [r \in PromptIds |-> IF r <= 2 THEN 1 ELSE 0]
    /\ gpCat = [r \in PromptIds |-> 1]
    /\ pgQueue = {}
    /\ pgJobs = {}
    /\ aiQueue = {}
    /\ agJobs = {}
    /\ adminLeft = 0
    /\ cgFails = [r \in PromptIds |-> 0]
    /\ exhausted = [r \in PromptIds |-> FALSE]
    /\ pageStatus = [p \in PageIds |-> IF p = 1 THEN "DRAFT"
                                       ELSE IF p = 2 THEN "PUBLISHED" ELSE "NONE"]
    /\ pagePublished = [p \in PageIds |-> p = 2]
    /\ pageTags = [p \in PageIds |-> IF p <= 2 THEN {"t1"} ELSE {}]
    /\ pageOf = [p \in PageIds |-> IF p <= 2 THEN p ELSE 0]
    /\ pageCat = [p \in PageIds |-> 1]
    /\ translationEnabled = TRUE
    /\ translationBatchSize \in 1..NumLocales
    /\ categoryRows = {1}
    /\ trRows = [p \in PageIds |-> [l \in Locales |->
                    IF p = 2 THEN TranslatorRow ELSE NoRow]]
    /\ trQueue = {[mid |-> 1, page |-> 1, made |-> 0, locales |-> SupportedSeq]}
    /\ nextMid = 2
    /\ locJobs = {}
    /\ linkQueue = {}
    /\ locDone = NoDelivery
    /\ InitTailIdle
    /\ lastOp = <<"init", 0>>
    /\ calls = {}

SpecSecondPage == InitSecondPage /\ [][NextLocLink]_vars

\* a TAG_RELATED row of locale l from page a to page b is stored
HasTagRow(a, b, l) ==
    \E x \in linkRows : /\ x.from = a
                        /\ x.to = b
                        /\ x.type = "TAG_RELATED"
                        /\ x.locale = l

\* C40: when the Link Indexer has ended its delivery for the page published
\* last, every other PUBLISHED page that shares a tag with it and has, like it,
\* a translation in a locale is linked with it in both directions by
\* TAG_RELATED rows of that locale.
C40_TagRelatedIsSymmetric ==
    \A a \in PageIds, b \in PageIds, l \in Locales :
        (/\ a # b
         /\ lastOp = <<"link_done", b>>
         /\ pageStatus[a] = "PUBLISHED"
         /\ pageStatus[b] = "PUBLISHED"
         /\ pageTags[a] \cap pageTags[b] # {}
         /\ trRows[a][l] # NoRow
         /\ trRows[b][l] # NoRow)
            => HasTagRow(a, b, l) /\ HasTagRow(b, a, l)

====
